---------------------------- MODULE Spec2Model ----------------------------
(***************************************************************************)
(* A model of the rss-bot pipeline: the two-stage filter (FilterManager),  *)
(* the batched dispatcher (FeedDispatcher), the per-source fetch           *)
(* (FeedManager.fetchFeedItems), the deduplicator (FeedDeduplicator), the  *)
(* concurrent poller (FeedPoller) and the scheduler cycle (FeedScheduler). *)
(*                                                                         *)
(* Every component has its own specification (SpecFilter, SpecQueue,       *)
(* SpecDispatch, SpecFetch, SpecDedup, SpecPoll, SpecSched) over one set   *)
(* of variables; a specification leaves the variables of the components    *)
(* it does not run at their initial values.  SpecPollCalls is the poller   *)
(* with callers besides the cycle, SpecCycle the scheduler with failing    *)
(* store writes and a Discord connection that comes and goes;              *)
(* SpecQueueFair and SpecCycleFair add the fairness that termination of    *)
(* the awaited calls gives.                                                *)
(***************************************************************************)
EXTENDS Integers, Sequences, FiniteSets, TLC

VARIABLES
  \* ---- persistent store (DBStorage) ----
  filters,        \* filters table: the active keywords, newest first
  feeds,          \* rss_feeds table: the rows [id, isActive], newest first
  lastSeenId,     \* rss_feeds.last_seen_id, per feed id
  feed_items,      \* feed_items table: the content hashes stored (UNIQUE)
  \* ---- the feed providers ----
  provider,       \* per feed id, the items the feed's URL serves, in order
  \* ---- the clock and the deduplicator (FeedDeduplicator) ----
  now,            \* Date.now(), in milliseconds from the start of the window
  recentHashes,   \* the in-memory set, in insertion order: [older, recent]
  lastCleanup,    \* time of construction or of the last periodic cleanup
  cleanupPromise, \* the storage.cleanup() call of the last periodic cleanup:
                  \* "none" | "pending" | "done" | "failed"
  dedupLog,       \* the isDuplicate calls made back to back, at most two
  \* ---- one poll of one feed (FeedPoller.executePollSingleFeed) ----
  pollTask,       \* per feed id: [pc, marker, attempt, newItems, idx, lookup,
                  \* stored]
  \* ---- the poller (FeedPoller) ----
  isPolling,      \* FeedPoller.isPolling
  pollPromises,   \* FeedPoller.pollPromises: the feed ids being polled
  pollPc,         \* where the call of pollAllFeeds stands
  pollFeeds,      \* pollAllFeeds: the feeds it loaded
  pollChunk,      \* pollAllFeeds: the index of the chunk awaited
  results,        \* pollAllFeeds: the map it builds, feed id to items
  \* ---- the scheduler (FeedScheduler) and the bot_config table ----
  botConfig,      \* bot_config table, per guild id
  isRunning,      \* FeedScheduler.isRunning
  cycle,          \* where the running checkAndProcessGuilds call stands
  trigger,        \* what arrived in the last step: "cron", "manual" or "none"
  served,         \* the due guilds whose processing ended in the current or
                  \* last cycle, in order: [guildId, via]
  calls,          \* what the current or last cycle has called: polls, the
                  \* number of pollAllFeeds calls; filtered, the filterItem
                  \* calls in order, [guildId, contentHash]; and earlier, the
                  \* content hashes the cycles before it sent to the filter
  failed,         \* history: the deliveries that dispatches did not make,
                  \* [channelId, contentHash]; kept by SpecSchedFaults only
  \* ---- callers of the poller besides the cycle ----
  reentry,        \* what a pollAllFeeds call made during a poll got:
                  \* "none" | "emptyMap" | "polling"
  callers,        \* per feed id, the pollSingleFeed calls from outside:
                  \* [direct, further, items]
  \* ---- FilterQueue ----
  queue,          \* FilterQueue.queue: the tasks waiting, by task number
  processing,     \* FilterQueue.processing
  activePromises, \* FilterQueue.activePromises: the tasks started, unsettled
  qpc,            \* processQueue: "idle" | "awaitAll"
  awaited,        \* the promises its Promise.all still waits for
  immediates,     \* setImmediate(processQueue) callbacks not yet run
  futures,        \* per task: the promise filterItem returned,
                  \* [state, settled]
  \* ---- FilterManager.shouldPostItem, one invocation ----
  fpc,            \* "idle" | "stageA" | "stageB" | "done"
  fItem,          \* the item being filtered: [title, description]
  fStageA,        \* result of stageAFilter of this invocation (or NoResult)
  fResult,        \* what shouldPostItem returned (or NoResult)
  fResponse,      \* what the remote classifier answered in this invocation
  aiCalls,        \* genAi.prompt calls issued by this invocation
  \* ---- DiscordClient ----
  clientReady,    \* isClientReady()
  delivered,      \* per channel, the content hashes sent, in order of sending
  \* ---- FeedDispatcher.dispatchFeed, one invocation ----
  dpc,            \* "idle" | "posting" | "done" | "raised"
  dChannel,       \* channelId
  dItems,         \* feed_items
  dBatch,         \* i, the index of the batch being processed (from 1)
  dPos,           \* position of the current item in its batch (from 1)
  dAttempt,       \* postSingleItem's attempt counter for the current item
  dWaits,         \* the sleeps postSingleItem made for the current item (ms)
  totalPosted,
  totalFailed,
  dLog            \* per item taken up: [item, sends, posted, waits]

filterVars == <<filters, fpc, fItem, fStageA, fResult, fResponse, aiCalls>>

dispatchVars == <<clientReady, delivered, dpc, dChannel, dItems, dBatch, dPos,
                  dAttempt, dWaits, totalPosted, totalFailed, dLog>>

sourceVars == <<feeds, lastSeenId, feed_items, provider>>

dedupVars == <<recentHashes, lastCleanup, cleanupPromise, dedupLog>>

pollVars == <<isPolling, pollPromises, pollPc, pollFeeds, pollChunk, results>>

callerVars == <<reentry, callers>>

queueVars ==
  <<queue, processing, activePromises, qpc, awaited, immediates, futures>>

schedVars == <<botConfig, isRunning, cycle, trigger, served, calls, failed>>

vars ==
  <<filterVars, dispatchVars, sourceVars, now, dedupVars, pollTask, pollVars,
    schedVars, callerVars, queueVars>>

\* what the actions of one component leave alone
outsideFilter ==
  <<dispatchVars, sourceVars, now, dedupVars, pollTask, pollVars, schedVars,
    callerVars, queueVars>>
outsideDispatch ==
  <<filterVars, sourceVars, now, dedupVars, pollTask, pollVars, schedVars,
    callerVars, queueVars>>
outsideFetch ==
  <<filterVars, dispatchVars, now, dedupVars, pollVars, schedVars, callerVars,
    queueVars>>
outsideDedup ==
  <<filterVars, dispatchVars, feeds, lastSeenId, provider, pollTask, pollVars,
    schedVars, callerVars, queueVars>>
outsidePoll ==
  <<filterVars, dispatchVars, sourceVars, now, dedupLog, schedVars, callerVars,
    queueVars>>

(***************************************************************************)
(* Strings are sequences of one-character strings.                         *)
(***************************************************************************)
Chars == {"a", "A", "b", "B", " "}

ToLowerChar(c) == IF c = "A" THEN "a" ELSE IF c = "B" THEN "b" ELSE c

\* String.prototype.toLowerCase
ToLowerCase(s) == [i \in 1..Len(s) |-> ToLowerChar(s[i])]

\* String.prototype.includes: k occurs in s as a contiguous substring
Includes(s, k) ==
  \E i \in 0..(Len(s) - Len(k)) : SubSeq(s, i + 1, i + Len(k)) = k

\* String.prototype.trim (the only white space of the model is " ")
RECURSIVE TrimLeft(_)
TrimLeft(s) == IF s # <<>> /\ Head(s) = " " THEN TrimLeft(Tail(s)) ELSE s

RECURSIVE TrimRight(_)
TrimRight(s) ==
  IF s # <<>> /\ s[Len(s)] = " " THEN TrimRight(SubSeq(s, 1, Len(s) - 1)) ELSE s

Trim(s) == TrimRight(TrimLeft(s))


(***************************************************************************)
(* FilterManager: the two-stage filter.                                    *)
(***************************************************************************)
MaxFilters == 1

\* the titles, descriptions and keywords of the model
Titles == {<<>>, <<"A">>, <<"b">>}
Descriptions == {<<>>, <<"a">>, <<"B", "a">>, <<"b">>}
Keywords == {<<"a">>, <<"A">>, <<"a", "b">>, <<" ", "b">>}

FilterItems == [title : Titles, description : Descriptions]

NoResult == [none |-> TRUE]
NoItem == [none |-> TRUE]
NoResponse == [kind |-> "none"]

(* The remote classifier's answer to one prompt:                            *)
(*   null    - genAi.prompt returned null (or the empty string)             *)
(*   throw   - genAi.prompt raised                                          *)
(*   text    - a text; `fenced` says whether it is wrapped in ```json ...```*)
(*             and `json` is what JSON.parse makes of the unwrapped text:   *)
(*               "invalid"  JSON.parse throws ("not json")                  *)
(*               "null"     the JSON value null                             *)
(*               "scalar"   a JSON number, string, boolean or array         *)
(*               "object"   an object, with the fields below; a field is    *)
(*                          "missing" when absent, "wrongtype" when present *)
(*                          with another type than the one expected         *)
Decisions == {"true", "false", "missing", "wrongtype"}
Confidences ==
  {[type |-> "missing"], [type |-> "wrongtype"]}
  \cup [type : {"number"}, value : {-1, 0, 87, 100, 101}]
Reasons == {"blank", "match"}
Categories == {"missing", "Sports"}

TextResponses ==
  [kind : {"text"}, fenced : BOOLEAN, json : {"invalid", "null", "scalar"}]
  \cup [kind : {"text"}, fenced : BOOLEAN, json : {"object"},
        decision : Decisions, confidence : Confidences,
        reason : Reasons, category : Categories]

Responses == {[kind |-> "null"], [kind |-> "throw"]} \cup TextResponses

\* a response whose text parses to an object with a boolean decision
WellFormed(r) ==
  r.kind = "text" /\ r.json = "object" /\ r.decision \in {"true", "false"}

\* parseAIResponse with a catch that rejects the item
parseAIResponse_FailClosed(response) ==
  IF response.json \in {"invalid", "null"}
  THEN [shouldPost |-> FALSE, reason |-> <<"AI response parsing error">>,
        confidence |-> 0, category |-> "Unknown"]
  ELSE [shouldPost |-> response.json = "object" /\ response.decision = "true",
        reason |-> <<"AI">>, confidence |-> 50, category |-> "Unknown"]

\* FilterManager.parseAIResponse
parseAIResponse(response) ==
  IF response.json \in {"invalid", "null"}
  THEN \* JSON.parse throws, or parsed.decision throws on null: the catch
       [shouldPost |-> TRUE, reason |-> <<"AI response parsing error">>,
        confidence |-> 0, category |-> "Unknown"]
  ELSE LET parsed == IF response.json = "object" THEN response
                     ELSE [decision |-> "missing", confidence |-> [type |-> "missing"],
                           reason |-> "missing", category |-> "missing"]
           decision == IF parsed.decision \in {"true", "false"}
                       THEN parsed.decision = "true" ELSE FALSE
           confidence == IF parsed.confidence.type = "number"
                            /\ parsed.confidence.value >= 0
                            /\ parsed.confidence.value <= 100
                         THEN parsed.confidence.value ELSE 50
           reason == IF parsed.reason \in {"missing", "blank"}
                     THEN "AI analysis completed" ELSE parsed.reason
           category == IF parsed.category \in {"missing", "blank"}
                       THEN "Unknown" ELSE parsed.category
       IN [shouldPost |-> decision, reason |-> <<"AI", reason>>,
           confidence |-> confidence, category |-> category]

\* FilterManager.stageAFilter; storeOk = FALSE: getAllFilters throws
RECURSIVE FirstMatch(_, _)
FirstMatch(content, fs) ==
  IF fs = <<>> THEN <<>>
  ELSE IF Includes(content, Head(fs)) THEN <<Head(fs)>>
  ELSE FirstMatch(content, Tail(fs))

ItemContent(item) == ToLowerCase(item.title \o <<" ">> \o item.description)

stageAFilter(item, fs, storeOk) ==
  IF ~storeOk
  THEN [shouldPost |-> TRUE, reason |-> <<"Stage A filtering error">>,
        confidence |-> 0]
  ELSE LET hit == FirstMatch(ItemContent(item), fs)
       IN IF hit # <<>>
          THEN [shouldPost |-> FALSE, reason |-> <<"Excluded by keyword filter", hit[1]>>]
          ELSE [shouldPost |-> TRUE, reason |-> <<"Passed Stage A filtering">>]

\* FilterManager.stageBFilter, given the classifier's answer; the prompt is
\* issued only when getAllFilters succeeded
stageBPrompts(storeOk) == IF storeOk THEN 1 ELSE 0

stageBFilter(response, storeOk) ==
  IF ~storeOk \/ response.kind = "throw"
  THEN [shouldPost |-> TRUE, reason |-> <<"AI filtering error">>, confidence |-> 0]
  ELSE IF response.kind = "null"
  THEN [shouldPost |-> TRUE, reason |-> <<"AI returned no response">>,
        confidence |-> 0]
  ELSE parseAIResponse(response)

\* FilterManager.addFilter normalises the keyword; the /filter chat command
\* (CommandHandler.handleFilter) writes the keyword to the store as typed
NormalizeKeyword(k) == Trim(ToLowerCase(k))

FilterIdle ==
  /\ fpc = "idle"
  /\ fItem = NoItem
  /\ fStageA = NoResult
  /\ fResult = NoResult
  /\ fResponse = NoResponse
  /\ aiCalls = 0


\* FilterManager.addFilter(keyword)
AddFilter(k) ==
  /\ fpc = "idle"
  /\ Len(filters) < MaxFilters
  /\ filters' = <<NormalizeKeyword(k)>> \o filters
  /\ UNCHANGED <<fpc, fItem, fStageA, fResult, fResponse, aiCalls>>
  /\ UNCHANGED outsideFilter

\* the /filter command: storage.addFilter({keyword, isActive: true})
CommandAddFilter(k) ==
  /\ fpc = "idle"
  /\ Len(filters) < MaxFilters
  /\ filters' = <<k>> \o filters
  /\ UNCHANGED <<fpc, fItem, fStageA, fResult, fResponse, aiCalls>>
  /\ UNCHANGED outsideFilter

\* FilterManager.removeFilter(id)
RemoveFilter(i) ==
  /\ fpc = "idle"
  /\ i \in 1..Len(filters)
  /\ filters' = SubSeq(filters, 1, i - 1) \o SubSeq(filters, i + 1, Len(filters))
  /\ UNCHANGED <<fpc, fItem, fStageA, fResult, fResponse, aiCalls>>
  /\ UNCHANGED outsideFilter

\* shouldPostItem(item) is called
ShouldPostItemCall(item) ==
  /\ fpc = "idle"
  /\ fpc' = "stageA"
  /\ fItem' = item
  /\ fStageA' = NoResult
  /\ fResult' = NoResult
  /\ fResponse' = NoResponse
  /\ aiCalls' = 0
  /\ UNCHANGED filters
  /\ UNCHANGED outsideFilter

\* shouldPostItem without the early return on a Stage A rejection
ShouldPostItemStageA_NoShortCircuit(storeOk) ==
  /\ fpc = "stageA"
  /\ fStageA' = stageAFilter(fItem, filters, storeOk)
  /\ fpc' = "stageB"
  /\ UNCHANGED <<filters, fItem, fResult, fResponse, aiCalls>>
  /\ UNCHANGED outsideFilter

\* shouldPostItem up to the return on a Stage A rejection
ShouldPostItemStageA(storeOk) ==
  /\ fpc = "stageA"
  /\ fStageA' = stageAFilter(fItem, filters, storeOk)
  /\ IF ~fStageA'.shouldPost
     THEN fResult' = fStageA' /\ fpc' = "done"
     ELSE fResult' = fResult /\ fpc' = "stageB"
  /\ UNCHANGED <<filters, fItem, fResponse, aiCalls>>
  /\ UNCHANGED outsideFilter

\* shouldPostItem from the call of stageBFilter to its return
ShouldPostItemStageB(response, storeOk) ==
  /\ fpc = "stageB"
  /\ aiCalls' = aiCalls + stageBPrompts(storeOk)
  /\ fResponse' = IF storeOk THEN response ELSE NoResponse
  /\ fResult' = stageBFilter(response, storeOk)
  /\ fpc' = "done"
  /\ UNCHANGED <<filters, fItem, fStageA>>
  /\ UNCHANGED outsideFilter

\* the caller has taken the result
ShouldPostItemReturn ==
  /\ fpc = "done"
  /\ fpc' = "idle"
  /\ fItem' = NoItem
  /\ fStageA' = NoResult
  /\ fResult' = NoResult
  /\ fResponse' = NoResponse
  /\ aiCalls' = 0
  /\ UNCHANGED filters
  /\ UNCHANGED outsideFilter


(***************************************************************************)
(* FilterQueue: filterItem puts a task on the queue and returns its        *)
(* future; processQueue starts queued tasks, at most maxConcurrent at a    *)
(* time; processTask runs shouldPostItem for one task and settles its      *)
(* future.  A task is known by its number, in order of submission.         *)
(***************************************************************************)
MaxTasks == 5

maxConcurrent == 3

Tasks == 1..MaxTasks

NoFuture == [state |-> "none", settled |-> 0]

outsideQueue ==
  <<filterVars, dispatchVars, sourceVars, now, dedupVars, pollTask, pollVars,
    schedVars, callerVars>>

Min(a, b) == IF a < b THEN a ELSE b

\* what processQueue leaves when it returns or reaches its await
QueueState(q, active, proc, pc, waits) ==
  [queue |-> q, activePromises |-> active, processing |-> proc, qpc |-> pc,
   awaited |-> waits]

\* processQueue whose loop does not test activePromises.size
processQueue_Unbounded(q, active) ==
  IF processing \/ q = <<>>
  THEN QueueState(q, active, processing, qpc, awaited)
  ELSE LET act == active \cup {q[j] : j \in 1..Len(q)}
       IN QueueState(<<>>, act, TRUE, "awaitAll", act)

\* processQueue taking tasks from the tail of the queue (pop, not shift)
processQueue_FromTail(q, active) ==
  IF processing \/ q = <<>>
  THEN QueueState(q, active, processing, qpc, awaited)
  ELSE LET k == Min(Len(q), maxConcurrent - Cardinality(active))
           act == active \cup {q[j] : j \in (Len(q) - k + 1)..Len(q)}
           rest == SubSeq(q, 1, Len(q) - k)
       IN IF rest = <<>> /\ act # {}
          THEN QueueState(rest, act, TRUE, "awaitAll", act)
          ELSE QueueState(rest, act, FALSE, "idle", {})

\* processQueue() called with queue q and activePromises active, up to its
\* return or its await: it returns at once when a call is under way or
\* the queue is empty; otherwise it starts tasks from the head of the
\* queue while fewer than maxConcurrent are active, then awaits all the
\* active ones if the queue is empty, and returns otherwise
processQueue(q, active) ==
  IF processing \/ q = <<>>
  THEN QueueState(q, active, processing, qpc, awaited)
  ELSE LET k == Min(Len(q), maxConcurrent - Cardinality(active))
           act == active \cup {q[j] : j \in 1..k}
           rest == SubSeq(q, k + 1, Len(q))
       IN IF rest = <<>> /\ act # {}
          THEN QueueState(rest, act, TRUE, "awaitAll", act)
          ELSE QueueState(rest, act, FALSE, "idle", {})

\* the queue takes the state a processQueue call left
QueueBecomes(r) ==
  /\ queue' = r.queue
  /\ activePromises' = r.activePromises
  /\ processing' = r.processing
  /\ qpc' = r.qpc
  /\ awaited' = r.awaited

\* filterItem(item): the next task is queued and processQueue is called
FilterItemCall ==
  /\ \E i \in Tasks :
       /\ futures[i].state = "none"
       /\ \A j \in 1..(i - 1) : futures[j].state # "none"
       /\ futures' = [futures EXCEPT ![i].state = "pending"]
       /\ QueueBecomes(processQueue(Append(queue, i), activePromises))
  /\ UNCHANGED immediates
  /\ UNCHANGED outsideQueue

\* shouldPostItem returns (ok) or throws for task i: processTask resolves
\* or rejects the task's future and ends; the finally callback of the
\* task's promise takes it out of activePromises and, if the queue is not
\* empty, schedules processQueue with setImmediate
ProcessTaskEnds(i, ok) ==
  /\ i \in activePromises
  /\ futures' = [futures EXCEPT
                   ![i] = [state |-> IF ok THEN "resolved" ELSE "rejected",
                           settled |-> @.settled + 1]]
  /\ activePromises' = activePromises \ {i}
  /\ awaited' = awaited \ {i}
  /\ immediates' = IF queue # <<>> THEN immediates + 1 ELSE immediates
  /\ UNCHANGED <<queue, processing, qpc>>
  /\ UNCHANGED outsideQueue

\* every promise processQueue awaited has settled: it resumes and its
\* finally resets processing
ProcessQueueResumes ==
  /\ qpc = "awaitAll"
  /\ awaited = {}
  /\ qpc' = "idle"
  /\ processing' = FALSE
  /\ UNCHANGED <<queue, activePromises, awaited, immediates, futures>>
  /\ UNCHANGED outsideQueue

\* a setImmediate callback runs: processQueue is called
SetImmediateFires ==
  /\ immediates > 0
  /\ immediates' = immediates - 1
  /\ QueueBecomes(processQueue(queue, activePromises))
  /\ UNCHANGED futures
  /\ UNCHANGED outsideQueue

QueueIdle ==
  /\ queue = <<>>
  /\ processing = FALSE
  /\ activePromises = {}
  /\ qpc = "idle"
  /\ awaited = {}
  /\ immediates = 0
  /\ futures = [i \in Tasks |-> NoFuture]


(***************************************************************************)
(* FeedDispatcher: batched delivery with per-item retry.                   *)
(***************************************************************************)
MaxDispatchItems == 7

maxItemsPerBatch == 5
maxRetries == 3

Channels == {"c1", "c2"}

\* Utils.chunkArray
RECURSIVE chunkArray(_, _)
chunkArray(array, chunkSize) ==
  IF Len(array) <= chunkSize
  THEN IF array = <<>> THEN <<>> ELSE <<array>>
  ELSE <<SubSeq(array, 1, chunkSize)>>
       \o chunkArray(SubSeq(array, chunkSize + 1, Len(array)), chunkSize)

batches == chunkArray(dItems, maxItemsPerBatch)

\* dispatchFeed walking its items from the last to the first
CurrentItem_FromEnd ==
  dItems[Len(dItems) + 1 - ((dBatch - 1) * maxItemsPerBatch + dPos)]

\* the item postSingleItem is working on
CurrentItem == batches[dBatch][dPos]

\* postSingleItem's sleep with the delay computed from the number of the
\* attempt to come
postRetryDelay_NextAttempt(attempt) == 2 ^ (attempt + 1) * 1000

\* postSingleItem's sleep after its attempt-th failure: attempt has been
\* incremented when the delay is computed
postRetryDelay(attempt) == 2 ^ attempt * 1000

DispatchIdle ==
  /\ dpc = "idle"
  /\ dChannel = "none"
  /\ dItems = <<>>
  /\ dBatch = 0
  /\ dPos = 0
  /\ dAttempt = 0
  /\ dWaits = <<>>
  /\ totalPosted = 0
  /\ totalFailed = 0
  /\ dLog = <<>>

\* dispatchFeed without its isClientReady test
DispatchFeedCall_NoPrecondition(channelId, feedItems) ==
  /\ dpc = "idle"
  /\ dChannel' = channelId
  /\ dItems' = feedItems
  /\ dAttempt' = 0
  /\ dWaits' = <<>>
  /\ totalPosted' = 0
  /\ totalFailed' = 0
  /\ dLog' = <<>>
  /\ IF feedItems = <<>>
     THEN dpc' = "done" /\ dBatch' = 0 /\ dPos' = 0
     ELSE dpc' = "posting" /\ dBatch' = 1 /\ dPos' = 1
  /\ UNCHANGED <<clientReady, delivered>>

\* dispatchFeed(channelId, feed_items) up to its first delivery attempt
DispatchFeedCall(channelId, feedItems) ==
  /\ dpc = "idle"
  /\ dChannel' = channelId
  /\ dItems' = feedItems
  /\ dAttempt' = 0
  /\ dWaits' = <<>>
  /\ totalPosted' = 0
  /\ totalFailed' = 0
  /\ dLog' = <<>>
  /\ IF ~clientReady
     THEN dpc' = "raised" /\ dBatch' = 0 /\ dPos' = 0
     ELSE IF feedItems = <<>>
     THEN dpc' = "done" /\ dBatch' = 0 /\ dPos' = 0
     ELSE dpc' = "posting" /\ dBatch' = 1 /\ dPos' = 1
  /\ UNCHANGED <<clientReady, delivered>>

\* the loops of dispatchFeed move on to the next item, batch, or the end
NextItem ==
  IF dPos < Len(batches[dBatch])
  THEN dpc' = "posting" /\ dBatch' = dBatch /\ dPos' = dPos + 1
  ELSE IF dBatch < Len(batches)
  THEN dpc' = "posting" /\ dBatch' = dBatch + 1 /\ dPos' = 1
  ELSE dpc' = "done" /\ dBatch' = dBatch /\ dPos' = dPos

\* one attempt of postSingleItem succeeds: sendFeedToChannel resolved
PostSingleItemSucceeds ==
  /\ dpc = "posting"
  /\ clientReady
  /\ delivered' = [delivered EXCEPT
                     ![dChannel] = Append(@, CurrentItem.contentHash)]
  /\ totalPosted' = totalPosted + 1
  /\ dLog' = Append(dLog, [item |-> CurrentItem, sends |-> dAttempt + 1,
                           posted |-> TRUE, waits |-> dWaits])
  /\ dAttempt' = 0
  /\ dWaits' = <<>>
  /\ NextItem
  /\ UNCHANGED <<clientReady, dChannel, dItems, totalFailed>>

\* the catch of dispatchFeed's item loop rethrows, ending the dispatch
PostSingleItemFails_Abort ==
  /\ dpc = "posting"
  /\ IF dAttempt + 1 < maxRetries
     THEN /\ dAttempt' = dAttempt + 1
          /\ dWaits' = Append(dWaits, postRetryDelay(dAttempt + 1))
          /\ UNCHANGED <<dpc, dBatch, dPos, totalFailed, dLog>>
     ELSE /\ totalFailed' = totalFailed + 1
          /\ dLog' = Append(dLog, [item |-> CurrentItem, sends |-> dAttempt + 1,
                                   posted |-> FALSE, waits |-> dWaits])
          /\ dAttempt' = 0
          /\ dWaits' = <<>>
          /\ dpc' = "raised"
          /\ UNCHANGED <<dBatch, dPos>>
  /\ UNCHANGED <<clientReady, delivered, dChannel, dItems, totalPosted>>

\* one attempt of postSingleItem fails (getAllFeeds or sendFeedToChannel
\* raised); after maxRetries failures postSingleItem throws and the item
\* loop counts the item failed
PostSingleItemFails ==
  /\ dpc = "posting"
  /\ IF dAttempt + 1 < maxRetries
     THEN /\ dAttempt' = dAttempt + 1
          /\ dWaits' = Append(dWaits, postRetryDelay(dAttempt + 1))
          /\ UNCHANGED <<dpc, dBatch, dPos, totalFailed, dLog>>
     ELSE /\ totalFailed' = totalFailed + 1
          /\ dLog' = Append(dLog, [item |-> CurrentItem, sends |-> dAttempt + 1,
                                   posted |-> FALSE, waits |-> dWaits])
          /\ dAttempt' = 0
          /\ dWaits' = <<>>
          /\ NextItem
  /\ UNCHANGED <<clientReady, delivered, dChannel, dItems, totalPosted>>

\* dispatchFeed has returned or thrown to its caller
DispatchFeedReturn ==
  /\ dpc \in {"done", "raised"}
  /\ dpc' = "idle"
  /\ dChannel' = "none"
  /\ dItems' = <<>>
  /\ dBatch' = 0
  /\ dPos' = 0
  /\ dAttempt' = 0
  /\ dWaits' = <<>>
  /\ totalPosted' = 0
  /\ totalFailed' = 0
  /\ dLog' = <<>>
  /\ UNCHANGED <<clientReady, delivered>>

\* the Discord connection comes up or goes down
ClientReadyChange ==
  /\ clientReady' = ~clientReady
  /\ UNCHANGED <<delivered, dpc, dChannel, dItems, dBatch, dPos, dAttempt,
                 dWaits, totalPosted, totalFailed, dLog>>




(***************************************************************************)
(* FeedManager.fetchFeedItems: one poll of one source.                     *)
(***************************************************************************)
MaxFeeds == 6
MaxProviderLen == 3

maxItemsPerFetch == 5

FeedIds == 1..MaxFeeds

NoId == <<>>

(* What a feed serves: an item has a guid or none, a content hash (of its   *)
(* title and link) when it has both a title and a link, and a publication   *)
(* date that is today's or not.  The last one lacks a title or a link and   *)
(* carries the guid of the first.                                           *)
RawItems ==
  { [guid |-> "g1",   contentHash |-> 1, valid |-> TRUE,  today |-> TRUE],
    [guid |-> "none", contentHash |-> 2, valid |-> TRUE,  today |-> TRUE],
    [guid |-> "g2",   contentHash |-> 1, valid |-> TRUE,  today |-> TRUE],
    [guid |-> "g3",   contentHash |-> 3, valid |-> TRUE,  today |-> FALSE],
    [guid |-> "g1",   contentHash |-> 0, valid |-> FALSE, today |-> TRUE] }

Hashes == {1, 2, 3}

\* FeedManager.generateItemId
generateItemId(item) ==
  IF item.guid # "none" THEN <<"guid", item.guid>>
  ELSE <<"content", item.contentHash>>

\* the positions of the items with both a link and a title (validItems)
RECURSIVE ValidPositions(_, _)
ValidPositions(items, from) ==
  IF from > Len(items) THEN <<>>
  ELSE IF items[from].valid
  THEN <<from>> \o ValidPositions(items, from + 1)
  ELSE ValidPositions(items, from + 1)

\* the loop over validItems with the marker test skipping, not stopping
RECURSIVE WalkItems_NoBreak(_, _, _, _, _, _)
WalkItems_NoBreak(items, valid, marker, seen, feedId, processedCount) ==
  IF valid = <<>> THEN <<>>
  ELSE LET item == items[Head(valid)]
           rest(n) == WalkItems_NoBreak(items, Tail(valid), marker, seen, feedId, n)
       IN IF marker # NoId /\ generateItemId(item) = marker
          THEN rest(processedCount)
          ELSE IF ~item.today THEN rest(processedCount)
          ELSE IF item.contentHash \in seen THEN rest(processedCount)
          ELSE <<[feedId |-> feedId, contentHash |-> item.contentHash,
                  pos |-> Head(valid)]>>
               \o (IF processedCount + 1 >= maxItemsPerFetch THEN <<>>
                   ELSE rest(processedCount + 1))

\* the loop over validItems of fetchFeedItems: newItems
RECURSIVE WalkItems(_, _, _, _, _, _)
WalkItems(items, valid, marker, seen, feedId, processedCount) ==
  IF valid = <<>> THEN <<>>
  ELSE LET item == items[Head(valid)]
           rest(n) == WalkItems(items, Tail(valid), marker, seen, feedId, n)
       IN IF marker # NoId /\ generateItemId(item) = marker
          THEN <<>>
          ELSE IF ~item.today THEN rest(processedCount)
          ELSE IF item.contentHash \in seen THEN rest(processedCount)
          ELSE <<[feedId |-> feedId, contentHash |-> item.contentHash,
                  pos |-> Head(valid)]>>
               \o (IF processedCount + 1 >= maxItemsPerFetch THEN <<>>
                   ELSE rest(processedCount + 1))

\* what one successful attempt of fetchFeedItems(feed) returns
NewItems(f, marker) ==
  WalkItems(provider[f], ValidPositions(provider[f], 1), marker, feed_items, f, 0)

\* the marker advanced by every successful attempt, new items or not
MarkerAfter_Always(f, marker) ==
  IF ValidPositions(provider[f], 1) # <<>>
  THEN generateItemId(provider[f][Head(ValidPositions(provider[f], 1))])
  ELSE lastSeenId[f]

\* the marker one successful attempt leaves in the store
MarkerAfter(f, marker) ==
  IF NewItems(f, marker) # <<>>
  THEN generateItemId(provider[f][Head(ValidPositions(provider[f], 1))])
  ELSE lastSeenId[f]

\* slept: the delay, in milliseconds, of the sleep that preceded the
\* attempt in progress (0 before the first attempt)
IdleTask ==
  [pc |-> "idle", marker |-> NoId, attempt |-> 0, slept |-> 0,
   newItems |-> <<>>, idx |-> 0, lookup |-> "none", stored |-> <<>>]

\* the delay computed from the attempt counter before its increment
retryDelay_BeforeIncrement(attempt) == 2 ^ (attempt - 1) * 1000

\* Math.pow(2, attempt) * 1000, attempt being the number of failed attempts
retryDelay(attempt) == 2 ^ attempt * 1000

\* fetchFeedItems(feed) is called; feed.lastSeenId is the caller's copy
FetchFeedItemsCall(f, marker) ==
  /\ pollTask[f].pc = "idle"
  /\ pollTask' = [pollTask EXCEPT ![f] =
                    [IdleTask EXCEPT !.pc = "fetch", !.marker = marker]]
  /\ UNCHANGED sourceVars

\* an attempt fails: parseFeed rejects or a store call raises; the call
\* sleeps and tries again, or after maxRetries failed attempts
\* fetchFeedItems throws.  (attempt is local to the call: it is back at 0
\* once the call is over.)
FetchAttemptFails(f) ==
  /\ pollTask[f].pc = "fetch"
  /\ pollTask' = [pollTask EXCEPT
        ![f].attempt = IF @ + 1 < maxRetries THEN @ + 1 ELSE 0,
        ![f].slept = IF pollTask[f].attempt + 1 < maxRetries
                     THEN retryDelay(pollTask[f].attempt + 1) ELSE 0,
        ![f].pc = IF pollTask[f].attempt + 1 < maxRetries
                  THEN "fetch" ELSE "fetchThrew"]
  /\ UNCHANGED sourceVars

\* an attempt succeeds: the items are walked, the marker is advanced when
\* something new was found, and newItems is returned
FetchAttemptSucceeds(f) ==
  /\ pollTask[f].pc = "fetch"
  /\ pollTask' = [pollTask EXCEPT
        ![f].newItems = NewItems(f, pollTask[f].marker),
        ![f].attempt = 0,
        ![f].slept = 0,
        ![f].pc = "fetched"]
  /\ lastSeenId' = [lastSeenId EXCEPT ![f] = MarkerAfter(f, pollTask[f].marker)]
  /\ UNCHANGED <<feeds, feed_items, provider>>

\* the caller of fetchFeedItems takes the result
FetchFeedItemsReturn(f) ==
  /\ pollTask[f].pc \in {"fetched", "fetchThrew"}
  /\ pollTask' = [pollTask EXCEPT ![f] = IdleTask]
  /\ UNCHANGED sourceVars


(***************************************************************************)
(* FeedDeduplicator.  The set recentHashes is kept in insertion order, as  *)
(* a JavaScript Set is: `older' counts its oldest members, none of them    *)
(* the hash of an item at hand, and `recent' lists the members after them. *)
(***************************************************************************)
MaxTicks == 3

maxRecentHashes == 10000

cleanupIntervalMs == 24 * 60 * 60 * 1000

\* the time between two firings of the cron expression */30 * * * *
TickMs == 30 * 60 * 1000

EmptyCache == [older |-> 0, recent |-> <<>>]

CacheSize(cache) == cache.older + Len(cache.recent)

\* recentHashes.has(contentHash)
CacheHas(cache, contentHash) ==
  \E i \in 1..Len(cache.recent) : cache.recent[i] = contentHash

\* the set without its last n members
DropOldest_Newest(cache, n) ==
  IF n <= Len(cache.recent)
  THEN [cache EXCEPT !.recent = SubSeq(@, 1, Len(@) - n)]
  ELSE [older |-> cache.older - (n - Len(cache.recent)), recent |-> <<>>]

\* the set without its first n members
DropOldest(cache, n) ==
  IF n <= cache.older
  THEN [cache EXCEPT !.older = @ - n]
  ELSE [older |-> 0,
        recent |-> SubSeq(cache.recent, n - cache.older + 1, Len(cache.recent))]

\* FeedDeduplicator.addToRecentCache
addToRecentCache(cache, contentHash) ==
  LET added == IF CacheHas(cache, contentHash) THEN cache
               ELSE [cache EXCEPT !.recent = Append(@, contentHash)]
  IN IF CacheSize(added) > maxRecentHashes
     THEN DropOldest(added, (maxRecentHashes * 1) \div 10)
     ELSE added

\* FeedDeduplicator.performPeriodicCleanup: is the cleanup due at time t
cleanupDue(t) == t - lastCleanup > cleanupIntervalMs

\* isDuplicate without the store: what is not in the set is new
isDuplicateLookup_CacheOnly(cache, contentHash, storeOk) ==
  IF CacheHas(cache, contentHash) THEN "cached" ELSE "new"

\* isDuplicate up to its await: the cache test and the call of the store
\* lookup, which reads feed_items at once; storeOk is whether it succeeds
isDuplicateLookup(cache, contentHash, storeOk) ==
  IF CacheHas(cache, contentHash) THEN "cached"
  ELSE IF ~storeOk THEN "error"
  ELSE IF contentHash \in feed_items THEN "seen"
  ELSE "new"

\* isDuplicate from its await on: what it returns
isDuplicateResult(lookup) == lookup \in {"cached", "seen"}

\* the set cleared by performPeriodicCleanup, but for the hash just added
CacheAfter_KeepInserted(contentHash, lookup) ==
  CASE lookup = "seen" -> addToRecentCache(recentHashes, contentHash)
    [] lookup = "new" ->
         IF cleanupDue(now) THEN addToRecentCache(EmptyCache, contentHash)
         ELSE addToRecentCache(recentHashes, contentHash)
    [] OTHER -> recentHashes

\* isDuplicate from its await on: what it leaves in recentHashes, lastCleanup
CacheAfter(contentHash, lookup) ==
  CASE lookup = "seen" -> addToRecentCache(recentHashes, contentHash)
    [] lookup = "new" ->
         IF cleanupDue(now) THEN EmptyCache
         ELSE addToRecentCache(recentHashes, contentHash)
    [] OTHER -> recentHashes

isDuplicateResume(contentHash, lookup) ==
  /\ recentHashes' = CacheAfter(contentHash, lookup)
  /\ lastCleanup' = IF lookup = "new" /\ cleanupDue(now) THEN now
                    ELSE lastCleanup
  /\ cleanupPromise' = IF lookup = "new" /\ cleanupDue(now) THEN "pending"
                       ELSE cleanupPromise

\* the last n entries of a sequence
LastN(seq, n) == IF Len(seq) <= n THEN seq ELSE SubSeq(seq, Len(seq) - n + 1, Len(seq))

\* isDuplicate(item) called and run to its end with nothing in between
IsDuplicate(contentHash, storeOk) ==
  LET lookup == isDuplicateLookup(recentHashes, contentHash, storeOk)
  IN /\ isDuplicateResume(contentHash, lookup)
     /\ dedupLog' = LastN(Append(dedupLog,
                                 [contentHash |-> contentHash,
                                  storeOk |-> storeOk,
                                  marked |-> contentHash \in feed_items,
                                  cached |-> CacheHas(recentHashes, contentHash),
                                  result |-> isDuplicateResult(lookup)]), 2)
     /\ UNCHANGED <<now, feed_items>>

\* FeedDeduplicator.clearCache
ClearCache ==
  /\ recentHashes' = EmptyCache
  /\ dedupLog' = <<>>
  /\ UNCHANGED <<now, lastCleanup, cleanupPromise, feed_items>>

\* DBStorage.addFeedItem, for a hash not yet stored
AddFeedItem(contentHash) ==
  /\ contentHash \notin feed_items
  /\ feed_items' = feed_items \cup {contentHash}
  /\ dedupLog' = <<>>
  /\ UNCHANGED <<now, recentHashes, lastCleanup,
                 cleanupPromise>>

\* time passes
Tick ==
  /\ now < MaxTicks * TickMs
  /\ now' = now + TickMs

\* the storage.cleanup() call started by performPeriodicCleanup settles:
\* it fulfils (no row of the store is 30 days old) or it rejects, and the
\* catch attached to it logs the error
CleanupSettles(ok) ==
  /\ cleanupPromise = "pending"
  /\ cleanupPromise' = IF ok THEN "done" ELSE "failed"
  /\ UNCHANGED <<now, recentHashes, lastCleanup, dedupLog, feed_items>>

DedupIdle ==
  /\ recentHashes = EmptyCache
  /\ lastCleanup = 0
  /\ cleanupPromise = "none"
  /\ dedupLog = <<>>


(***************************************************************************)
(* FeedPoller: pollAllFeeds and the polls of the feeds of a chunk, which   *)
(* run interleaved at their awaits.                                        *)
(***************************************************************************)
concurrencyLimit == 5

\* DBStorage.getAllFeeds: the active feeds, each with its marker
getAllFeeds ==
  LET active == SelectSeq(feeds, LAMBDA row : row.isActive)
  IN [i \in 1..Len(active) |->
        [id |-> active[i].id, lastSeenId |-> lastSeenId[active[i].id]]]

\* pollAllFeeds without the chunking: all feeds in one batch
feedChunks_OneBatch == IF pollFeeds = <<>> THEN <<>> ELSE <<pollFeeds>>

\* Utils.chunkArray(feeds, concurrencyLimit)
feedChunks == chunkArray(pollFeeds, concurrencyLimit)

ChunkIds(c) == {feedChunks[c][i].id : i \in 1..Len(feedChunks[c])}

\* chunk.map(pollSingleFeed): every feed of the chunk is taken up, each
\* poll running up to the first await of fetchFeedItems; a feed with a poll
\* in flight is not taken up again
StartChunk(chunk) ==
  [f \in FeedIds |->
     IF f \notin pollPromises /\ \E i \in 1..Len(chunk) : chunk[i].id = f
     THEN LET feed == CHOOSE x \in {chunk[i] : i \in 1..Len(chunk)} : x.id = f
          IN [IdleTask EXCEPT !.pc = "fetch", !.marker = feed.lastSeenId]
     ELSE pollTask[f]]

\* pollAllFeeds is called while no poll is in progress; storeOk is whether
\* getAllFeeds succeeds
PollAllFeedsCall(storeOk) ==
  /\ pollPc = "idle"
  /\ ~isPolling
  /\ results' = <<>>
  /\ pollChunk' = 0
  /\ IF storeOk
     THEN /\ isPolling' = TRUE
          /\ pollFeeds' = getAllFeeds
          /\ pollPc' = "loaded"
          /\ UNCHANGED pollPromises
     ELSE /\ isPolling' = FALSE
          /\ pollFeeds' = <<>>
          /\ pollPc' = "threw"
          /\ pollPromises' = {}
  /\ UNCHANGED <<pollTask, recentHashes, lastCleanup,
                 cleanupPromise>>

\* the feeds are loaded: the first chunk is started, or with no feed the
\* empty map is returned
PollAllFeedsLoaded ==
  /\ pollPc = "loaded"
  /\ IF feedChunks = <<>>
     THEN /\ pollPc' = "returned"
          /\ isPolling' = FALSE
          /\ UNCHANGED <<pollTask, pollPromises, pollChunk>>
     ELSE /\ pollPc' = "awaiting"
          /\ pollChunk' = 1
          /\ pollTask' = StartChunk(feedChunks[1])
          /\ pollPromises' = pollPromises \cup ChunkIds(1)
          /\ UNCHANGED isPolling
  /\ UNCHANGED <<pollFeeds, results, recentHashes, lastCleanup,
                 cleanupPromise>>

\* the next step of the item loop of executePollSingleFeed from item i on:
\* the next isDuplicate call up to its await, or the return of storedItems
TaskStep(f, i, stored, cache, storeOk) ==
  IF i > Len(pollTask[f].newItems)
  THEN [pollTask[f] EXCEPT !.pc = "fulfilled", !.idx = i, !.stored = stored,
                           !.lookup = "none"]
  ELSE [pollTask[f] EXCEPT !.pc = "isDuplicate", !.idx = i, !.stored = stored,
          !.lookup = isDuplicateLookup(cache,
                       pollTask[f].newItems[i].contentHash, storeOk)]

Settles(task) == task.pc \in {"fulfilled", "rejected"}

\* fetchFeedItems returned: the item loop starts
PollAfterFetch(f, storeOk) ==
  /\ pollTask[f].pc = "fetched"
  /\ LET task == TaskStep(f, 1, <<>>, recentHashes, storeOk)
     IN /\ pollTask' = [pollTask EXCEPT ![f] = task]
        /\ pollPromises' = IF Settles(task) THEN pollPromises \ {f}
                           ELSE pollPromises
  /\ UNCHANGED <<isPolling, pollPc, pollFeeds, pollChunk, results,
                 recentHashes, lastCleanup,
                 cleanupPromise>>

\* fetchFeedItems threw: executePollSingleFeed rethrows
PollFetchThrew(f) ==
  /\ pollTask[f].pc = "fetchThrew"
  /\ pollTask' = [pollTask EXCEPT ![f].pc = "rejected"]
  /\ pollPromises' = pollPromises \ {f}
  /\ UNCHANGED <<isPolling, pollPc, pollFeeds, pollChunk, results,
                 recentHashes, lastCleanup,
                 cleanupPromise>>

\* an isDuplicate call resumes from its await and returns; the item is
\* kept unless it is a duplicate, and the loop goes on
PollIsDuplicateResumes(f, storeOk) ==
  /\ pollTask[f].pc = "isDuplicate"
  /\ LET item == pollTask[f].newItems[pollTask[f].idx]
         lookup == pollTask[f].lookup
         stored == IF isDuplicateResult(lookup) THEN pollTask[f].stored
                   ELSE Append(pollTask[f].stored, item)
         task == TaskStep(f, pollTask[f].idx + 1, stored,
                          CacheAfter(item.contentHash, lookup), storeOk)
     IN /\ isDuplicateResume(item.contentHash, lookup)
        /\ pollTask' = [pollTask EXCEPT ![f] = task]
        /\ pollPromises' = IF Settles(task) THEN pollPromises \ {f}
                           ELSE pollPromises
  /\ UNCHANGED <<isPolling, pollPc, pollFeeds, pollChunk, results>>

\* what the chunk's settled polls put into the map
ChunkResults(c) ==
  [f \in ChunkIds(c) |->
     IF pollTask[f].pc = "fulfilled" THEN pollTask[f].stored ELSE <<>>]

\* Promise.allSettled gave way to Promise.all: a rejected poll fails pollAll
PollChunkSettled_FailFast ==
  /\ pollPc = "awaiting"
  /\ \A f \in ChunkIds(pollChunk) : Settles(pollTask[f])
  /\ IF \E f \in ChunkIds(pollChunk) : pollTask[f].pc = "rejected"
     THEN /\ pollPc' = "threw"
          /\ isPolling' = FALSE
          /\ pollPromises' = {}
          /\ UNCHANGED <<pollTask, pollChunk, results>>
     ELSE /\ results' = ChunkResults(pollChunk) @@ results
          /\ IF pollChunk < Len(feedChunks)
             THEN /\ pollChunk' = pollChunk + 1
                  /\ pollTask' = StartChunk(feedChunks[pollChunk + 1])
                  /\ pollPromises' = pollPromises \cup ChunkIds(pollChunk + 1)
                  /\ UNCHANGED <<pollPc, isPolling>>
             ELSE /\ pollPc' = "returned"
                  /\ isPolling' = FALSE
                  /\ pollPromises' = {}
                  /\ UNCHANGED <<pollTask, pollChunk>>
  /\ UNCHANGED <<pollFeeds, recentHashes, lastCleanup,
                 cleanupPromise>>

\* every poll of the chunk has settled: the map takes the chunk's results,
\* and the next chunk is started or the map is returned
PollChunkSettled ==
  /\ pollPc = "awaiting"
  /\ \A f \in ChunkIds(pollChunk) : Settles(pollTask[f])
  /\ results' = ChunkResults(pollChunk) @@ results
  /\ IF pollChunk < Len(feedChunks)
     THEN /\ pollChunk' = pollChunk + 1
          /\ pollTask' = StartChunk(feedChunks[pollChunk + 1])
          /\ pollPromises' = pollPromises \cup ChunkIds(pollChunk + 1)
          /\ UNCHANGED <<pollPc, isPolling>>
     ELSE /\ pollPc' = "returned"
          /\ isPolling' = FALSE
          /\ pollPromises' = {}
          /\ UNCHANGED <<pollTask, pollChunk>>
  /\ UNCHANGED <<pollFeeds, recentHashes, lastCleanup,
                 cleanupPromise>>

\* the caller of pollAllFeeds takes the map, or the error; the settled
\* polls of its feeds are done with once every request for them has got
\* their outcome
PollAllFeedsReturn ==
  /\ pollPc \in {"returned", "threw"}
  /\ \A f \in FeedIds : callers[f].further # "waiting"
  /\ pollPc' = "idle"
  /\ pollTask' = [f \in FeedIds |->
                    IF \E i \in 1..Len(pollFeeds) : pollFeeds[i].id = f
                    THEN IdleTask ELSE pollTask[f]]
  /\ pollFeeds' = <<>>
  /\ pollChunk' = 0
  /\ results' = <<>>
  /\ UNCHANGED <<isPolling, pollPromises, recentHashes, lastCleanup,
                 cleanupPromise>>

\* the poller's own state and what its polls read and write
PollerState ==
  <<pollVars, pollTask, sourceVars, dedupVars>>

outsideCallers ==
  <<filterVars, dispatchVars, sourceVars, now, dedupVars, schedVars,
    queueVars>>

\* pollAllFeeds without its isPolling test: a call made during a poll
\* starts a poll of its own
SecondPollAllFeedsCall_NoGuard ==
  /\ pollPc \in {"loaded", "awaiting"}
  /\ reentry = "none"
  /\ reentry' = "polling"
  /\ isPolling' = TRUE
  /\ results' = <<>>
  /\ pollFeeds' = getAllFeeds
  /\ pollPc' = "loaded"
  /\ pollChunk' = 0
  /\ UNCHANGED <<pollPromises, pollTask, callers>>
  /\ UNCHANGED outsideCallers

\* pollAllFeeds is called while a pollAllFeeds call is in flight: it
\* returns an empty map at once
SecondPollAllFeedsCall ==
  /\ pollPc \in {"loaded", "awaiting"}
  /\ reentry = "none"
  /\ isPolling
  /\ reentry' = "emptyMap"
  /\ UNCHANGED <<pollVars, pollTask, callers>>
  /\ UNCHANGED outsideCallers

\* the second caller goes its way with what it got
SecondPollAllFeedsReturn ==
  /\ reentry # "none"
  /\ reentry' = "none"
  /\ UNCHANGED <<pollVars, pollTask, callers>>
  /\ UNCHANGED outsideCallers

\* pollSingleFeed(feed) is called from outside pollAllFeeds: with a poll
\* of the feed in flight the caller awaits that poll's promise; otherwise
\* executePollSingleFeed is started and its promise put into pollPromises.
\* (Calls that start a poll are made for feeds that pollAllFeeds does not
\* take up, the inactive ones.)
PollSingleFeedCall(f) ==
  /\ \E i \in 1..Len(feeds) : feeds[i].id = f
  /\ IF f \in pollPromises
     THEN /\ callers[f].further = "none"
          /\ callers' = [callers EXCEPT ![f].further = "waiting"]
          /\ UNCHANGED <<pollTask, pollPromises>>
     ELSE /\ pollTask[f].pc = "idle"
          /\ ~callers[f].direct
          /\ \A i \in 1..Len(feeds) : feeds[i].id = f => ~feeds[i].isActive
          /\ callers' = [callers EXCEPT ![f].direct = TRUE]
          /\ pollTask' = [pollTask EXCEPT
                            ![f] = [IdleTask EXCEPT !.pc = "fetch",
                                                    !.marker = lastSeenId[f]]]
          /\ pollPromises' = pollPromises \cup {f}
  /\ UNCHANGED <<isPolling, pollPc, pollFeeds, pollChunk, results, reentry>>
  /\ UNCHANGED outsideCallers

\* the poll a further request awaits has settled: the request gets the
\* outcome of that poll
FurtherRequestSettles(f) ==
  /\ callers[f].further = "waiting"
  /\ Settles(pollTask[f])
  /\ callers' = [callers EXCEPT ![f].further = pollTask[f].pc,
                                ![f].items = pollTask[f].stored]
  /\ UNCHANGED <<pollVars, pollTask, reentry>>
  /\ UNCHANGED outsideCallers

\* the callers from outside go their way with the outcome of the poll
PollSingleFeedReturn(f) ==
  /\ callers[f].further # "waiting"
  /\ \/ /\ callers[f].direct
        /\ Settles(pollTask[f])
        /\ pollTask' = [pollTask EXCEPT ![f] = IdleTask]
     \/ /\ ~callers[f].direct
        /\ callers[f].further # "none"
        /\ UNCHANGED pollTask
  /\ callers' = [callers EXCEPT
                   ![f] = [direct |-> FALSE, further |-> "none", items |-> <<>>]]
  /\ UNCHANGED <<pollVars, reentry>>
  /\ UNCHANGED outsideCallers

PollIdle ==
  /\ isPolling = FALSE
  /\ pollPromises = {}
  /\ pollPc = "idle"
  /\ pollFeeds = <<>>
  /\ pollChunk = 0
  /\ results = <<>>


(***************************************************************************)
(* FeedScheduler: the cycle checkAndProcessGuilds, started by the cron job *)
(* every 30 minutes and by runOnce / triggerManualRun.                     *)
(***************************************************************************)
Guilds == {"g1", "g2"}

HourMs == 60 * 60 * 1000

\* SQLite's CURRENT_TIMESTAMP: the time in whole seconds, UTC
CURRENT_TIMESTAMP(t) == (t \div 1000) * 1000

\* the offsets of local time from UTC the process may run under
TimeZoneOffsets == {0, 2 * HourMs, 0 - 5 * HourMs}

\* new Date(row.last_updated) in getAllBotConfigs: the stored text, which
\* has no zone, is read as local time
ParseLocal(text, zone) == text - zone

\* Date.prototype.toString, used by the concatenation guild.lastUpdated +
\* 'Z': the local date and time, in whole seconds
PrintLocal(date, zone) == ((date + zone) \div 1000) * 1000

\* new Date(guild.lastUpdated + 'Z').getTime(): the printed date and time
\* are read as UTC
ForceUTC(lastUpdated, zone) == PrintLocal(lastUpdated, zone)

\* DBStorage.getAllBotConfigs: the rows of a set of guilds, latest first
RECURSIVE OrderByLastUpdatedDesc(_)
OrderByLastUpdatedDesc(gs) ==
  IF gs = {} THEN <<>>
  ELSE LET g == CHOOSE x \in gs :
                  \A y \in gs : botConfig[x].lastUpdated >= botConfig[y].lastUpdated
       IN <<[guildId |-> g,
             channelId |-> botConfig[g].channelId,
             pollIntervalHours |-> botConfig[g].pollIntervalHours,
             lastUpdated |-> botConfig[g].lastUpdated]>>
          \o OrderByLastUpdatedDesc(gs \ {g})

\* FeedScheduler.getActiveGuilds: the configurations with a channel, or
\* nothing when the store fails
getActiveGuilds(storeOk) ==
  IF storeOk
  THEN SelectSeq(OrderByLastUpdatedDesc(Guilds), LAMBDA c : c.channelId # "none")
  ELSE <<>>

\* the same test with the comparison made strict
shouldUpdateGuild_Strict(guild, t, zone) ==
  LET lastUpdate == ForceUTC(ParseLocal(guild.lastUpdated, zone), zone)
      intervalMs == (IF guild.pollIntervalHours = 0 THEN 1
                     ELSE guild.pollIntervalHours) * HourMs
  IN t - lastUpdate > intervalMs

\* FeedScheduler.shouldUpdateGuild, at time t under a local time zone; the
\* guild carries last_updated as stored, which getAllBotConfigs reads
shouldUpdateGuild(guild, t, zone) ==
  LET lastUpdate == ForceUTC(ParseLocal(guild.lastUpdated, zone), zone)
      intervalMs == (IF guild.pollIntervalHours = 0 THEN 1
                     ELSE guild.pollIntervalHours) * HourMs
  IN t - lastUpdate >= intervalMs

IdleCycle ==
  [pc |-> "idle", guilds |-> <<>>, guildsToUpdate |-> <<>>, gateTime |-> 0,
   allItems |-> <<>>, gi |-> 0, ii |-> 0, filteredItems |-> <<>>,
   outcomes |-> <<>>]

\* Array.from(feedResults.values()).flat(): the map in insertion order
RECURSIVE Flat(_, _)
Flat(fs, map) ==
  IF fs = <<>> THEN <<>>
  ELSE (IF Head(fs).id \in DOMAIN map THEN map[Head(fs).id] ELSE <<>>)
       \o Flat(Tail(fs), map)

\* DBStorage.updateBotConfig({guildId, lastUpdated}) for a set of guilds
TouchLastUpdated(gs) ==
  [g \in Guilds |->
     IF g \in gs
     THEN [botConfig[g] EXCEPT !.lastUpdated = CURRENT_TIMESTAMP(now)]
     ELSE botConfig[g]]

NoCalls == [polls |-> 0, filtered |-> <<>>, earlier |-> {}]

\* a cycle starts: what the last one sent to the filter is kept as earlier
CallsOfNewCycle ==
  [polls |-> 0, filtered |-> <<>>,
   earlier |-> calls.earlier \cup
               {calls.filtered[i].contentHash : i \in 1..Len(calls.filtered)}]

\* the deliveries the dispatch that is returning did not make: the items it
\* gave up after maxRetries attempts and, if it threw on its precondition,
\* all the items it was given
FailedDeliveries ==
  {[channelId |-> dChannel, contentHash |-> dLog[k].item.contentHash] :
     k \in {j \in 1..Len(dLog) : ~dLog[j].posted}}
  \cup (IF dpc = "raised"
        THEN {[channelId |-> dChannel, contentHash |-> dItems[k].contentHash] :
                k \in 1..Len(dItems)}
        ELSE {})

\* checkAndProcessGuilds without its finally: isRunning is not reset
CycleEnds_NoFinally ==
  /\ UNCHANGED isRunning
  /\ cycle' = IdleCycle

\* a promise was rejected with no handler: the unhandledRejection handler
\* of the application logs it, shuts down and exits the process
ProcessExited ==
  \E i \in 1..Len(served) : served[i].via = "unhandled"

\* the finally of checkAndProcessGuilds
CycleEnds ==
  /\ isRunning' = FALSE
  /\ cycle' = IdleCycle

\* checkAndProcessGuilds without its isRunning test
checkAndProcessGuilds_NoGuard(storeOk) ==
  /\ isRunning' = TRUE
  /\ cycle' = [IdleCycle EXCEPT !.pc = "loading",
                                !.guilds = getActiveGuilds(storeOk)]

\* checkAndProcessGuilds up to its first await; storeOk is whether
\* getAllBotConfigs succeeds
checkAndProcessGuilds(storeOk) ==
  IF isRunning
  THEN UNCHANGED <<isRunning, cycle>>
  ELSE /\ isRunning' = TRUE
       /\ cycle' = [IdleCycle EXCEPT !.pc = "loading",
                                     !.guilds = getActiveGuilds(storeOk)]

\* the cron job fires, 30 minutes after it last did
CronTick(storeOk) ==
  /\ ~ProcessExited
  /\ now < MaxTicks * TickMs
  /\ now' = now + TickMs
  /\ trigger' = "cron"
  /\ checkAndProcessGuilds(storeOk)
  /\ served' = IF isRunning' /\ ~isRunning THEN <<>> ELSE served
  /\ calls' = IF isRunning' /\ ~isRunning THEN CallsOfNewCycle ELSE calls
  /\ UNCHANGED <<botConfig, filterVars, callerVars, queueVars, failed,
                 dispatchVars, sourceVars, dedupVars,
                 pollTask, pollVars>>

\* runOnce / triggerManualRun
RunOnce(storeOk) ==
  /\ ~ProcessExited
  /\ trigger' = "manual"
  /\ checkAndProcessGuilds(storeOk)
  /\ served' = IF isRunning' /\ ~isRunning THEN <<>> ELSE served
  /\ calls' = IF isRunning' /\ ~isRunning THEN CallsOfNewCycle ELSE calls
  /\ UNCHANGED <<now, botConfig, filterVars, callerVars, queueVars, failed,
                 dispatchVars, sourceVars,
                 dedupVars, pollTask, pollVars>>

\* checkAndProcessGuilds without its test of which guilds are due: every
\* guild loaded is taken as due
CycleGuildsLoaded_NoDueTest(storeOk, zone) ==
  /\ cycle.pc = "loading"
  /\ trigger' = "none"
  /\ LET guildsToUpdate == cycle.guilds
     IN IF guildsToUpdate = <<>>
        THEN /\ CycleEnds
             /\ UNCHANGED <<pollVars, pollTask, recentHashes, lastCleanup,
                            cleanupPromise, calls>>
        ELSE /\ cycle' = [cycle EXCEPT !.pc = "polling",
                                       !.guildsToUpdate = guildsToUpdate,
                                       !.gateTime = now]
             /\ PollAllFeedsCall(storeOk)
             /\ calls' = [calls EXCEPT !.polls = @ + 1]
             /\ UNCHANGED isRunning
  /\ UNCHANGED <<now, botConfig, served, filterVars, callerVars, queueVars, failed,
                 dispatchVars, sourceVars,
                 dedupLog>>

\* the configurations are loaded: the due guilds are selected and, if there
\* is one, pollAllFeeds is called; storeOk is whether getAllFeeds succeeds,
\* zone the local time zone of the process
CycleGuildsLoaded(storeOk, zone) ==
  /\ cycle.pc = "loading"
  /\ trigger' = "none"
  /\ LET guildsToUpdate ==
           SelectSeq(cycle.guilds, LAMBDA g : shouldUpdateGuild(g, now, zone))
     IN IF guildsToUpdate = <<>>
        THEN /\ CycleEnds
             /\ UNCHANGED <<pollVars, pollTask, recentHashes, lastCleanup,
                            cleanupPromise, calls>>
        ELSE /\ cycle' = [cycle EXCEPT !.pc = "polling",
                                       !.guildsToUpdate = guildsToUpdate,
                                       !.gateTime = now]
             /\ PollAllFeedsCall(storeOk)
             /\ calls' = [calls EXCEPT !.polls = @ + 1]
             /\ UNCHANGED isRunning
  /\ UNCHANGED <<now, botConfig, served, filterVars, callerVars, queueVars, failed,
                 dispatchVars, sourceVars,
                 dedupLog>>


\* processGuildFeed goes on to the next due guild, or the cycle ends
NextGuild ==
  IF cycle.gi < Len(cycle.guildsToUpdate)
  THEN /\ cycle' = [cycle EXCEPT !.pc = "filtering", !.gi = @ + 1, !.ii = 1,
                                 !.filteredItems = <<>>, !.outcomes = <<>>]
       /\ UNCHANGED isRunning
  ELSE CycleEnds

\* checkAndProcessGuilds stamping every configured guild, not only the due
\* ones, when the poll found nothing
CyclePollReturned_StampAll ==
  /\ cycle.pc = "polling"
  /\ trigger' = "none"
  /\ PollAllFeedsReturn
  /\ LET allItems == Flat(pollFeeds, results)
     IN IF pollPc = "threw"
        THEN CycleEnds /\ UNCHANGED <<botConfig, served>>
        ELSE IF allItems = <<>>
        THEN /\ CycleEnds
             /\ botConfig' = TouchLastUpdated(Guilds)
             /\ served' = [i \in 1..Len(cycle.guildsToUpdate) |->
                             [guildId |-> cycle.guildsToUpdate[i].guildId,
                              via |-> "zero"]]
        ELSE /\ cycle' = [cycle EXCEPT !.pc = "filtering", !.allItems = allItems,
                                       !.gi = 1, !.ii = 1, !.filteredItems = <<>>]
             /\ UNCHANGED <<isRunning, botConfig, served>>
  /\ UNCHANGED <<now, filterVars, callerVars, queueVars, failed,
                 dispatchVars, sourceVars, dedupLog, calls>>

\* pollAllFeeds returned or threw: with no new item the due guilds are
\* stamped and the cycle ends, otherwise the first due guild is taken up
CyclePollReturned ==
  /\ cycle.pc = "polling"
  /\ trigger' = "none"
  /\ PollAllFeedsReturn
  /\ LET allItems == Flat(pollFeeds, results)
         due == {cycle.guildsToUpdate[i].guildId :
                   i \in 1..Len(cycle.guildsToUpdate)}
     IN IF pollPc = "threw"
        THEN CycleEnds /\ UNCHANGED <<botConfig, served>>
        ELSE IF allItems = <<>>
        THEN /\ CycleEnds
             /\ botConfig' = TouchLastUpdated(due)
             /\ served' = [i \in 1..Len(cycle.guildsToUpdate) |->
                             [guildId |-> cycle.guildsToUpdate[i].guildId,
                              via |-> "zero"]]
        ELSE /\ cycle' = [cycle EXCEPT !.pc = "filtering", !.allItems = allItems,
                                       !.gi = 1, !.ii = 1, !.filteredItems = <<>>]
             /\ UNCHANGED <<isRunning, botConfig, served>>
  /\ UNCHANGED <<now, filterVars, callerVars, queueVars, failed,
                 dispatchVars, sourceVars, dedupLog, calls>>

\* pollAllFeeds returned no new item and updateBotConfig throws for the
\* guilds in failing: each callback of the forEach is an async function
\* nobody awaits, so its rejection is handled by no one; the other due
\* guilds are stamped and the cycle ends
CyclePollReturnedWriteFails(failing) ==
  /\ cycle.pc = "polling"
  /\ pollPc # "threw"
  /\ Flat(pollFeeds, results) = <<>>
  /\ failing # {}
  /\ failing \subseteq {cycle.guildsToUpdate[i].guildId :
                          i \in 1..Len(cycle.guildsToUpdate)}
  /\ trigger' = "none"
  /\ PollAllFeedsReturn
  /\ CycleEnds
  /\ botConfig' =
       TouchLastUpdated({cycle.guildsToUpdate[i].guildId :
                           i \in 1..Len(cycle.guildsToUpdate)} \ failing)
  /\ served' = [i \in 1..Len(cycle.guildsToUpdate) |->
                  [guildId |-> cycle.guildsToUpdate[i].guildId,
                   via |-> IF cycle.guildsToUpdate[i].guildId \in failing
                           THEN "unhandled" ELSE "zero"]]
  /\ UNCHANGED <<now, filterVars, callerVars, queueVars, failed,
                 dispatchVars, sourceVars, dedupLog, calls>>

\* what the race of filterQueue.filterItem(item) with the 30 s timeout gives
\* (the filter's decision, its failure, or the timeout winning the race)
FilterOutcomes == {"accept", "reject", "throws", "timeout"}

\* the item pushed only once addFeedItem has stored it
PushAccepted_AfterStore(filteredItems, item, outcome, storeOk) ==
  IF outcome = "accept" /\ storeOk /\ item.contentHash \notin feed_items
  THEN Append(filteredItems, item)
  ELSE filteredItems

\* filteredItems.push(item) for an accepted item: the push precedes
\* addFeedItem, whose throw does not take the item out again
PushAccepted(filteredItems, item, outcome, storeOk) ==
  IF outcome = "accept" THEN Append(filteredItems, item) ELSE filteredItems

\* the filter call of the current item settles: an accepted item is pushed
\* to filteredItems and then stored (addFeedItem throws when the hash is
\* already stored or, with storeOk false, when the INSERT fails; the throw
\* is caught by the item's catch); after the last item the guild is stamped
\* if nothing was accepted, and dispatchFeed is called otherwise
CycleFilterResolves(outcome, storeOk) ==
  /\ cycle.pc = "filtering"
  /\ trigger' = "none"
  /\ LET item == cycle.allItems[cycle.ii]
         guild == cycle.guildsToUpdate[cycle.gi]
         filteredItems == PushAccepted(cycle.filteredItems, item, outcome,
                                       storeOk)
         outcomes == Append(cycle.outcomes, outcome)
     IN /\ calls' = [calls EXCEPT !.filtered =
                       Append(@, [guildId |-> guild.guildId,
                                  contentHash |-> item.contentHash])]
        /\ feed_items' = IF outcome = "accept" /\ storeOk
                         THEN feed_items \cup {item.contentHash}
                         ELSE feed_items
        /\ IF cycle.ii < Len(cycle.allItems)
           THEN /\ cycle' = [cycle EXCEPT !.ii = @ + 1,
                                          !.filteredItems = filteredItems,
                                          !.outcomes = outcomes]
                /\ UNCHANGED <<isRunning, botConfig, served, dispatchVars>>
           ELSE IF filteredItems = <<>>
           THEN /\ botConfig' = TouchLastUpdated({guild.guildId})
                /\ served' = Append(served, [guildId |-> guild.guildId,
                                             via |-> "empty"])
                /\ NextGuild
                /\ UNCHANGED dispatchVars
           ELSE /\ cycle' = [cycle EXCEPT !.pc = "dispatching",
                                          !.filteredItems = filteredItems,
                                          !.outcomes = outcomes]
                /\ DispatchFeedCall(guild.channelId, filteredItems)
                /\ UNCHANGED <<isRunning, botConfig, served>>
  /\ UNCHANGED <<now, filterVars, callerVars, queueVars, failed,
                 feeds, lastSeenId, provider, dedupVars,
                 pollTask, pollVars>>

\* processGuildFeed without its catch: a throw of dispatchFeed reaches the
\* catch of checkAndProcessGuilds and ends the cycle
CycleDispatchReturned_NoCatch ==
  /\ cycle.pc = "dispatching"
  /\ trigger' = "none"
  /\ DispatchFeedReturn
  /\ botConfig' = IF dpc = "done"
                  THEN TouchLastUpdated({cycle.guildsToUpdate[cycle.gi].guildId})
                  ELSE botConfig
  /\ served' = Append(served,
                      [guildId |-> cycle.guildsToUpdate[cycle.gi].guildId,
                       via |-> IF dpc = "done" THEN "dispatched" ELSE "raised"])
  /\ IF dpc = "done" THEN NextGuild ELSE CycleEnds
  /\ UNCHANGED <<now, filterVars, callerVars, queueVars, failed,
                 sourceVars, dedupVars, pollTask, pollVars, calls>>

\* dispatchFeed returned, and the guild is stamped, or it threw; the next
\* due guild is taken up or the cycle ends; history is what the history
\* variable failed becomes
CycleDispatchReturnedKeeping(history) ==
  /\ cycle.pc = "dispatching"
  /\ trigger' = "none"
  /\ DispatchFeedReturn
  /\ botConfig' = IF dpc = "done"
                  THEN TouchLastUpdated({cycle.guildsToUpdate[cycle.gi].guildId})
                  ELSE botConfig
  /\ served' = Append(served,
                      [guildId |-> cycle.guildsToUpdate[cycle.gi].guildId,
                       via |-> IF dpc = "done" THEN "dispatched" ELSE "raised"])
  /\ NextGuild
  /\ failed' = history
  /\ UNCHANGED <<now, filterVars, callerVars, queueVars,
                 sourceVars, dedupVars, pollTask, pollVars, calls>>

CycleDispatchReturned == CycleDispatchReturnedKeeping(failed)

\* nobody but the cycle calls the poller
CallersIdle ==
  /\ reentry = "none"
  /\ callers = [f \in FeedIds |->
                  [direct |-> FALSE, further |-> "none", items |-> <<>>]]

SchedIdle ==
  /\ botConfig = [g \in Guilds |->
       [channelId |-> "none", pollIntervalHours |-> 2, lastUpdated |-> 0]]
  /\ isRunning = FALSE
  /\ cycle = IdleCycle
  /\ trigger = "none"
  /\ served = <<>>
  /\ calls = NoCalls
  /\ failed = {}


(***************************************************************************)
(* The specifications, one per component.                                  *)
(***************************************************************************)
StoreIdle == filters = <<>>

SourceIdle ==
  /\ feeds = <<>>
  /\ lastSeenId = [f \in FeedIds |-> NoId]
  /\ feed_items = {}
  /\ provider = [f \in FeedIds |-> <<>>]

PollTaskIdle == pollTask = [f \in FeedIds |-> IdleTask]

ClientIdle ==
  /\ clientReady = TRUE
  /\ delivered = [c \in Channels |-> <<>>]

InitFilter ==
  /\ filters = <<>>
  /\ FilterIdle
  /\ ClientIdle
  /\ DispatchIdle
  /\ CallersIdle
  /\ QueueIdle
  /\ SourceIdle
  /\ now = 0
  /\ DedupIdle
  /\ PollTaskIdle
  /\ PollIdle
  /\ SchedIdle

NextFilter ==
  \/ \E k \in Keywords : AddFilter(k)
  \/ \E k \in Keywords : CommandAddFilter(k)
  \/ \E i \in 1..MaxFilters : RemoveFilter(i)
  \/ \E item \in FilterItems : ShouldPostItemCall(item)
  \/ \E ok \in BOOLEAN : ShouldPostItemStageA(ok)
  \/ \E r \in Responses, ok \in BOOLEAN : ShouldPostItemStageB(r, ok)
  \/ ShouldPostItemReturn

SpecFilter == InitFilter /\ [][NextFilter]_vars

\* the feed items handed to a dispatch: n items of distinct content
DispatchItems(n) == [i \in 1..n |-> [feedId |-> "f1", contentHash |-> i]]

InitDispatch ==
  /\ clientReady \in BOOLEAN
  /\ delivered = [c \in Channels |-> <<>>]
  /\ DispatchIdle
  /\ CallersIdle
  /\ QueueIdle
  /\ StoreIdle
  /\ FilterIdle
  /\ SourceIdle
  /\ now = 0
  /\ DedupIdle
  /\ PollTaskIdle
  /\ PollIdle
  /\ SchedIdle

\* a caller dispatches up to MaxDispatchItems items to a channel; the
\* dispatcher is exercised until some channel has received something
NextDispatch ==
  \/ /\ \A c \in Channels : delivered[c] = <<>>
     /\ \E c \in Channels, n \in 0..MaxDispatchItems :
          DispatchFeedCall(c, DispatchItems(n))
     /\ UNCHANGED outsideDispatch
  \/ PostSingleItemSucceeds /\ UNCHANGED outsideDispatch
  \/ PostSingleItemFails /\ UNCHANGED outsideDispatch
  \/ DispatchFeedReturn /\ UNCHANGED outsideDispatch
  \/ ClientReadyChange /\ UNCHANGED outsideDispatch

SpecDispatch == InitDispatch /\ [][NextDispatch]_vars


\* the lists a provider may serve
RECURSIVE ProviderLists(_)
ProviderLists(n) ==
  IF n = 0 THEN {<<>>}
  ELSE LET shorter == ProviderLists(n - 1)
       IN shorter \cup {<<x>> \o l : x \in RawItems,
                                   l \in {m \in shorter : Len(m) = n - 1}}

\* the markers a store may hold for a feed: none, or the identity of an item
Markers == {NoId} \cup {generateItemId(x) : x \in {y \in RawItems : y.valid}}

\* one feed, serving any list, with any marker and any set of stored hashes
InitFetch ==
  /\ feeds = <<[id |-> 1, isActive |-> TRUE]>>
  /\ \E l \in ProviderLists(MaxProviderLen) :
       provider = [f \in FeedIds |-> IF f = 1 THEN l ELSE <<>>]
  /\ \E m \in Markers :
       lastSeenId = [f \in FeedIds |-> IF f = 1 THEN m ELSE NoId]
  /\ feed_items \in SUBSET {1, 2}
  /\ now = 0
  /\ DedupIdle
  /\ PollTaskIdle
  /\ PollIdle
  /\ SchedIdle
  /\ StoreIdle
  /\ FilterIdle
  /\ ClientIdle
  /\ DispatchIdle
  /\ CallersIdle
  /\ QueueIdle

NextFetch ==
  \/ FetchFeedItemsCall(1, lastSeenId[1]) /\ UNCHANGED outsideFetch
  \/ FetchAttemptFails(1) /\ UNCHANGED outsideFetch
  \/ FetchAttemptSucceeds(1) /\ UNCHANGED outsideFetch
  \/ FetchFeedItemsReturn(1) /\ UNCHANGED outsideFetch

SpecFetch == InitFetch /\ [][NextFetch]_vars

\* the items a provider may serve beyond the cap of one fetch
MaxBacklog == 2

\* n items of today, each with a link and a title, newest first
Backlog(n) ==
  [i \in 1..n |->
     [guid |-> "none", contentHash |-> i, valid |-> TRUE, today |-> TRUE]]

\* one feed never polled before, serving up to maxItemsPerFetch +
\* MaxBacklog items, none of them stored
InitBacklog ==
  /\ feeds = <<[id |-> 1, isActive |-> TRUE]>>
  /\ \E n \in 1..(maxItemsPerFetch + MaxBacklog) :
       provider = [f \in FeedIds |-> IF f = 1 THEN Backlog(n) ELSE <<>>]
  /\ lastSeenId = [f \in FeedIds |-> NoId]
  /\ feed_items = {}
  /\ now = 0
  /\ DedupIdle
  /\ PollTaskIdle
  /\ PollIdle
  /\ SchedIdle
  /\ StoreIdle
  /\ FilterIdle
  /\ ClientIdle
  /\ DispatchIdle
  /\ CallersIdle
  /\ QueueIdle

\* the poll of a cycle is over: the cycle stores the items it accepted
\* (addFeedItem in processGuildFeed), accepted being their content hashes
BacklogPollReturns(accepted) ==
  /\ pollTask[1].pc \in {"fetched", "fetchThrew"}
  /\ accepted \subseteq {pollTask[1].newItems[k].contentHash :
                            k \in 1..Len(pollTask[1].newItems)}
  /\ pollTask' = [pollTask EXCEPT ![1] = IdleTask]
  /\ feed_items' = feed_items \cup accepted
  /\ UNCHANGED <<feeds, lastSeenId, provider>>

NextBacklog ==
  \/ FetchFeedItemsCall(1, lastSeenId[1]) /\ UNCHANGED outsideFetch
  \/ FetchAttemptFails(1) /\ UNCHANGED outsideFetch
  \/ FetchAttemptSucceeds(1) /\ UNCHANGED outsideFetch
  \/ \E accepted \in SUBSET (1..(maxItemsPerFetch + MaxBacklog)) :
       BacklogPollReturns(accepted) /\ UNCHANGED outsideFetch

\* every cycle polls the feed, the provider answers again and again, and
\* the cycle takes what the poll returned
SpecBacklog ==
  /\ InitBacklog
  /\ [][NextBacklog]_vars
  /\ WF_vars(FetchFeedItemsCall(1, lastSeenId[1]) /\ UNCHANGED outsideFetch)
  /\ SF_vars(FetchAttemptSucceeds(1) /\ UNCHANGED outsideFetch)
  /\ WF_vars(\E accepted \in SUBSET (1..(maxItemsPerFetch + MaxBacklog)) :
               BacklogPollReturns(accepted) /\ UNCHANGED outsideFetch)


\* a deduplicator constructed at or before the start of the window, its
\* set holding any number of older hashes, over a store holding any hashes
InitDedup ==
  /\ now = 0
  /\ lastCleanup \in {0, TickMs - cleanupIntervalMs, 0 - cleanupIntervalMs}
  /\ cleanupPromise = "none"
  /\ \E n \in {0, maxRecentHashes - 1, maxRecentHashes} :
       recentHashes = [older |-> n, recent |-> <<>>]
  /\ dedupLog = <<>>
  /\ feed_items \in SUBSET {1, 2}
  /\ feeds = <<>>
  /\ lastSeenId = [f \in FeedIds |-> NoId]
  /\ provider = [f \in FeedIds |-> <<>>]
  /\ PollTaskIdle
  /\ PollIdle
  /\ SchedIdle
  /\ StoreIdle
  /\ FilterIdle
  /\ ClientIdle
  /\ DispatchIdle
  /\ CallersIdle
  /\ QueueIdle

NextDedup ==
  \/ \E h \in {1, 2}, storeOk \in BOOLEAN :
       IsDuplicate(h, storeOk) /\ UNCHANGED outsideDedup
  \/ ClearCache /\ UNCHANGED outsideDedup
  \/ \E h \in {1, 2} : AddFeedItem(h) /\ UNCHANGED outsideDedup
  \/ Tick /\ UNCHANGED <<dedupVars, feed_items>> /\ UNCHANGED outsideDedup
  \/ \E ok \in BOOLEAN : CleanupSettles(ok) /\ UNCHANGED outsideDedup

SpecDedup == InitDedup /\ [][NextDedup]_vars


\* feeds 1 and 3 serve the same item of today, the first feed of the second
\* chunk serves another one, and the other feeds serve nothing
PollProvider(f) ==
  IF f \in {1, 3}
  THEN <<[guid |-> "none", contentHash |-> 1, valid |-> TRUE, today |-> TRUE]>>
  ELSE IF f = concurrencyLimit + 1
  THEN <<[guid |-> "g1", contentHash |-> 2, valid |-> TRUE, today |-> TRUE]>>
  ELSE <<>>

\* MaxFeeds feeds, all active or all but one, nothing stored yet
InitPoll ==
  /\ \E inactive \in {0, 2} :
       feeds = [f \in FeedIds |-> [id |-> f, isActive |-> f # inactive]]
  /\ lastSeenId = [f \in FeedIds |-> NoId]
  /\ feed_items = {}
  /\ provider = [f \in FeedIds |-> PollProvider(f)]
  /\ now = 0
  /\ DedupIdle
  /\ PollTaskIdle
  /\ PollIdle
  /\ SchedIdle
  /\ StoreIdle
  /\ FilterIdle
  /\ ClientIdle
  /\ DispatchIdle
  /\ CallersIdle
  /\ QueueIdle

NextPoll ==
  \/ \E storeOk \in BOOLEAN : PollAllFeedsCall(storeOk) /\ UNCHANGED outsidePoll
  \/ PollAllFeedsLoaded /\ UNCHANGED outsidePoll
  \/ \E f \in FeedIds :
       /\ pollPc = "awaiting"
       /\ \/ FetchAttemptFails(f)
          \/ FetchAttemptSucceeds(f)
       /\ UNCHANGED outsideFetch
  \/ \E f \in FeedIds, storeOk \in BOOLEAN :
       PollAfterFetch(f, storeOk) /\ UNCHANGED outsidePoll
  \/ \E f \in FeedIds : PollFetchThrew(f) /\ UNCHANGED outsidePoll
  \/ \E f \in FeedIds, storeOk \in BOOLEAN :
       PollIsDuplicateResumes(f, storeOk) /\ UNCHANGED outsidePoll
  \/ PollChunkSettled /\ UNCHANGED outsidePoll

SpecPoll == InitPoll /\ [][NextPoll]_vars

\* two active feeds and an inactive one, nothing stored yet
InitPollCalls ==
  /\ feeds = <<[id |-> 1, isActive |-> TRUE], [id |-> 2, isActive |-> TRUE],
               [id |-> 3, isActive |-> FALSE]>>
  /\ lastSeenId = [f \in FeedIds |-> NoId]
  /\ feed_items = {}
  /\ provider = [f \in FeedIds |-> PollProvider(f)]
  /\ now = 0
  /\ DedupIdle
  /\ PollTaskIdle
  /\ PollIdle
  /\ CallersIdle
  /\ SchedIdle
  /\ StoreIdle
  /\ FilterIdle
  /\ ClientIdle
  /\ DispatchIdle
  /\ QueueIdle

\* polls called for over and again, with calls of pollAllFeeds and of
\* pollSingleFeed from other callers in between
NextPollCalls ==
  \/ \E storeOk \in BOOLEAN : PollAllFeedsCall(storeOk) /\ UNCHANGED outsidePoll
  \/ PollAllFeedsLoaded /\ UNCHANGED outsidePoll
  \/ \E f \in FeedIds :
       /\ \/ FetchAttemptFails(f)
          \/ FetchAttemptSucceeds(f)
       /\ UNCHANGED outsideFetch
  \/ \E f \in FeedIds : PollAfterFetch(f, TRUE) /\ UNCHANGED outsidePoll
  \/ \E f \in FeedIds : PollFetchThrew(f) /\ UNCHANGED outsidePoll
  \/ \E f \in FeedIds : PollIsDuplicateResumes(f, TRUE) /\ UNCHANGED outsidePoll
  \/ PollChunkSettled /\ UNCHANGED outsidePoll
  \/ PollAllFeedsReturn /\ UNCHANGED outsidePoll
  \/ SecondPollAllFeedsCall
  \/ SecondPollAllFeedsReturn
  \/ \E f \in FeedIds : PollSingleFeedCall(f)
  \/ \E f \in FeedIds : FurtherRequestSettles(f)
  \/ \E f \in FeedIds : PollSingleFeedReturn(f)

SpecPollCalls == InitPollCalls /\ [][NextPollCalls]_vars


\* what the two feeds of the scheduler's runs serve: the same article
SchedProvider(f) ==
  IF f \in {1, 2}
  THEN <<[guid |-> "none", contentHash |-> 1, valid |-> TRUE, today |-> TRUE]>>
  ELSE <<>>

InitQueue ==
  /\ QueueIdle
  /\ CallersIdle
  /\ StoreIdle
  /\ FilterIdle
  /\ ClientIdle
  /\ DispatchIdle
  /\ SourceIdle
  /\ now = 0
  /\ DedupIdle
  /\ PollTaskIdle
  /\ PollIdle
  /\ SchedIdle

NextQueue ==
  \/ FilterItemCall
  \/ \E i \in Tasks, ok \in BOOLEAN : ProcessTaskEnds(i, ok)
  \/ ProcessQueueResumes
  \/ SetImmediateFires

SpecQueue == InitQueue /\ [][NextQueue]_vars

\* every filter invocation terminates, processQueue resumes once the
\* promises it awaits have settled, and a setImmediate callback is run;
\* nothing obliges a caller to submit another item
SpecQueueFair ==
  /\ SpecQueue
  /\ WF_vars(\E i \in Tasks, ok \in BOOLEAN : ProcessTaskEnds(i, ok))
  /\ WF_vars(ProcessQueueResumes)
  /\ WF_vars(SetImmediateFires)

\* two feeds and two guilds, both with a channel or both without: g2 posts
\* every hour and was stamped an hour ago, g1 every two hours and was
\* stamped 130, 120 or 90 minutes ago; the deduplicator is new or a day old
InitSched ==
  /\ feeds = <<[id |-> 1, isActive |-> TRUE], [id |-> 2, isActive |-> TRUE]>>
  /\ lastSeenId = [f \in FeedIds |-> NoId]
  /\ feed_items = {}
  /\ provider = [f \in FeedIds |-> SchedProvider(f)]
  /\ now = 0
  /\ recentHashes = EmptyCache
  /\ lastCleanup \in {0, 0 - cleanupIntervalMs}
  /\ cleanupPromise = "none"
  /\ dedupLog = <<>>
  /\ \E minutes \in {130, 120, 90}, configured \in BOOLEAN :
       botConfig =
         [g \in Guilds |->
            IF g = "g1"
            THEN [channelId |-> IF configured THEN "c1" ELSE "none",
                  pollIntervalHours |-> 2,
                  lastUpdated |-> 0 - minutes * 60 * 1000]
            ELSE [channelId |-> IF configured THEN "c2" ELSE "none",
                  pollIntervalHours |-> 1,
                  lastUpdated |-> 0 - HourMs]]
  /\ isRunning = FALSE
  /\ cycle = IdleCycle
  /\ trigger = "none"
  /\ served = <<>>
  /\ calls = NoCalls
  /\ failed = {}
  /\ PollTaskIdle
  /\ PollIdle
  /\ StoreIdle
  /\ FilterIdle
  /\ ClientIdle
  /\ DispatchIdle
  /\ CallersIdle
  /\ QueueIdle

\* what a step of the poller leaves alone in a cycle
PollFrame ==
  /\ trigger' = "none"
  /\ UNCHANGED <<filterVars, callerVars, queueVars, failed,
                 dispatchVars, sourceVars, now, dedupLog,
                 botConfig, isRunning, cycle, served, calls>>

\* what a step of a fetch leaves alone in a cycle
FetchFrame ==
  /\ trigger' = "none"
  /\ UNCHANGED <<filterVars, callerVars, queueVars, failed,
                 dispatchVars, now, dedupVars, pollVars,
                 botConfig, isRunning, cycle, served, calls>>

\* what a step of the dispatcher leaves alone in a cycle
DispatchFrame ==
  /\ trigger' = "none"
  /\ UNCHANGED <<filterVars, callerVars, queueVars, failed,
                 sourceVars, now, dedupVars, pollTask, pollVars,
                 botConfig, isRunning, cycle, served, calls>>

\* the steps of a running cycle: each is the return of a store call, a
\* source fetch, a filter call or its timeout, or a delivery call
CycleWork ==
  \/ \E storeOk \in BOOLEAN, zone \in TimeZoneOffsets :
       CycleGuildsLoaded(storeOk, zone)
  \/ PollAllFeedsLoaded /\ PollFrame
  \/ \E f \in FeedIds : pollPc = "awaiting" /\ FetchAttemptFails(f) /\ FetchFrame
  \/ \E f \in FeedIds : pollPc = "awaiting" /\ FetchAttemptSucceeds(f) /\ FetchFrame
  \/ \E f \in FeedIds : PollAfterFetch(f, TRUE) /\ PollFrame
  \/ \E f \in FeedIds : PollFetchThrew(f) /\ PollFrame
  \/ \E f \in FeedIds : PollIsDuplicateResumes(f, TRUE) /\ PollFrame
  \/ PollChunkSettled /\ PollFrame
  \/ CyclePollReturned
  \/ \E outcome \in FilterOutcomes : CycleFilterResolves(outcome, TRUE)
  \/ PostSingleItemSucceeds /\ DispatchFrame
  \/ PostSingleItemFails /\ DispatchFrame

\* the steps of a running cycle
CycleStep ==
  \/ CycleWork
  \/ CycleDispatchReturned

NextSched ==
  \/ \E storeOk \in BOOLEAN : CronTick(storeOk)
  \/ \E storeOk \in BOOLEAN : RunOnce(storeOk)
  \/ CycleStep

SpecSched == InitSched /\ [][NextSched]_vars

\* one source with two items
CycleProvider(f) ==
  IF f = 1
  THEN <<[guid |-> "none", contentHash |-> 2, valid |-> TRUE, today |-> TRUE],
         [guid |-> "none", contentHash |-> 1, valid |-> TRUE, today |-> TRUE]>>
  ELSE <<>>

\* one feed and two guilds with a channel each: g2 posts every hour and was
\* stamped an hour ago, g1 every two hours and was stamped 90 minutes ago,
\* so that g2 alone is due now and both are due at the first cron tick
InitCycle ==
  /\ feeds = <<[id |-> 1, isActive |-> TRUE]>>
  /\ lastSeenId = [f \in FeedIds |-> NoId]
  /\ feed_items = {}
  /\ provider = [f \in FeedIds |-> CycleProvider(f)]
  /\ now = 0
  /\ recentHashes = EmptyCache
  /\ lastCleanup = 0
  /\ cleanupPromise = "none"
  /\ dedupLog = <<>>
  /\ botConfig =
        [g \in Guilds |->
           IF g = "g1"
           THEN [channelId |-> "c1", pollIntervalHours |-> 2,
                 lastUpdated |-> 0 - 90 * 60 * 1000]
           ELSE [channelId |-> "c2", pollIntervalHours |-> 1,
                 lastUpdated |-> 0 - HourMs]]
  /\ isRunning = FALSE
  /\ cycle = IdleCycle
  /\ trigger = "none"
  /\ served = <<>>
  /\ calls = NoCalls
  /\ failed = {}
  /\ PollTaskIdle
  /\ PollIdle
  /\ StoreIdle
  /\ FilterIdle
  /\ ClientIdle
  /\ DispatchIdle
  /\ CallersIdle
  /\ QueueIdle

\* the steps of SpecSched, and besides: the INSERT of addFeedItem fails,
\* and the Discord connection goes down or comes up
NextCycle ==
  \/ NextSched
  \/ \E failing \in SUBSET Guilds : CyclePollReturnedWriteFails(failing)
  \/ \E outcome \in FilterOutcomes : CycleFilterResolves(outcome, FALSE)
  \/ ClientReadyChange /\ DispatchFrame

SpecCycle == InitCycle /\ [][NextCycle]_vars

\* the two feeds and guilds of SpecSched, both guilds with a channel, g1
\* stamped two hours ago and the deduplicator a day old
InitSchedFaults ==
  /\ InitSched
  /\ lastCleanup = 0 - cleanupIntervalMs
  /\ botConfig["g1"].channelId = "c1"
  /\ botConfig["g1"].lastUpdated = 0 - 2 * HourMs

\* the steps of SpecCycle, with the history of failed deliveries kept
NextSchedFaults ==
  \/ \E storeOk \in BOOLEAN : CronTick(storeOk)
  \/ \E storeOk \in BOOLEAN : RunOnce(storeOk)
  \/ CycleWork
  \/ CycleDispatchReturnedKeeping(failed \cup FailedDeliveries)
  \/ \E outcome \in FilterOutcomes : CycleFilterResolves(outcome, FALSE)
  \/ ClientReadyChange /\ DispatchFrame
  \/ \E failing \in SUBSET Guilds : CyclePollReturnedWriteFails(failing)

\* the cycles of SpecSched with the faults of SpecCycle
SpecSchedFaults == InitSchedFaults /\ [][NextSchedFaults]_vars

\* the calls a cycle awaits terminate, and the 30 s timer of a filter call
\* fires: a step of the running cycle is eventually taken
SpecCycleFair == SpecCycle /\ WF_vars(CycleStep)


(***************************************************************************)
(* Properties of the two-stage filter (SpecFilter).                        *)
(***************************************************************************)

\* Stage A has rejected the item of the current invocation
StageARejected == fStageA # NoResult /\ ~fStageA.shouldPost

\* Stage B ran in the current invocation, which has returned
StageBReturned == fpc = "done" /\ fStageA # NoResult /\ fStageA.shouldPost

\* the classifier gave no answer, raised, or answered text JSON.parse refuses
Unparseable(r) ==
  r.kind \in {"null", "throw"} \/ (r.kind = "text" /\ r.json = "invalid")

\* C5: whenever Stage A rejects the item, shouldPostItem returns that
\* rejection and has issued no remote classification call; the classifier
\* is called only in an invocation whose Stage A passed the item.
C5_StageAShortCircuit ==
  /\ (fpc = "done" /\ StageARejected) =>
        /\ fResult = fStageA
        /\ ~fResult.shouldPost
        /\ aiCalls = 0
        /\ fResponse = NoResponse
  /\ (aiCalls > 0 \/ fResponse # NoResponse) =>
        (fStageA # NoResult /\ fStageA.shouldPost)

\* keyword "a", item text containing "A": rejected without a remote call
C5_Witness ==
  /\ fpc = "done"
  /\ filters = << <<"a">> >>
  /\ fItem = [title |-> <<"A">>, description |-> <<>>]
  /\ StageARejected
  /\ aiCalls = 0

\* C6: when the classifier returns null, raises, or returns text that does
\* not parse, Stage B returns accept with confidence 0, and shouldPostItem
\* has returned a decision.
C6_FailOpenOnClassifierFailure ==
  (StageBReturned /\ Unparseable(fResponse)) =>
     /\ fResult # NoResult
     /\ fResult.shouldPost
     /\ fResult.confidence = 0

\* the classifier answered "not json" and the item was accepted
C6_Witness ==
  /\ StageBReturned
  /\ fResponse = [kind |-> "text", fenced |-> FALSE, json |-> "invalid"]
  /\ fResult.shouldPost
  /\ fResult.confidence = 0

\* C7: shouldPostItem returns reject only if an exclusion keyword matched in
\* Stage A or the classifier's response was well formed with the boolean
\* decision false; every other response yields accept.
C7_NeverFailClosed ==
  (fpc = "done" /\ ~fResult.shouldPost) =>
     \/ StageARejected
     \/ (WellFormed(fResponse) /\ fResponse.decision = "false")


(***************************************************************************)
(* Properties of the dispatcher (SpecDispatch).                            *)
(***************************************************************************)

\* the items of the current dispatch whose every attempt failed
ExhaustedItems == {i \in 1..Len(dLog) : ~dLog[i].posted}

\* C8: a dispatch that started delivering takes up every item in order,
\* never raises because an item exhausted its retries, and ends with
\* posted + failed = number of items, failed being exactly the number of
\* items whose every attempt (all maxRetries of them) failed.
C8_DispatchPartialFailure ==
  /\ dpc = "done" =>
       /\ Len(dLog) = Len(dItems)
       /\ \A i \in 1..Len(dItems) : dLog[i].item = dItems[i]
       /\ totalPosted + totalFailed = Len(dItems)
       /\ totalFailed = Cardinality(ExhaustedItems)
       /\ \A i \in ExhaustedItems : dLog[i].sends = maxRetries
       /\ totalPosted = Len(delivered[dChannel])
  /\ dpc = "raised" => (dLog = <<>> /\ totalPosted = 0 /\ totalFailed = 0)

\* 7 items, the 4th exhausts its retries: 6 posted, 1 failed, 5-7 delivered
C8_Witness ==
  /\ dpc = "done"
  /\ Len(dItems) = 7
  /\ totalPosted = 6
  /\ totalFailed = 1
  /\ ExhaustedItems = {4}
  /\ delivered[dChannel] = <<1, 2, 3, 5, 6, 7>>


(***************************************************************************)
(* Properties of one poll of one source (SpecFetch).                       *)
(***************************************************************************)
\* the positions of the walked items (those with a link and a title) whose
\* identity is the marker the poll was called with
MarkerPositions(f) ==
  {k \in 1..Len(provider[f]) :
     /\ provider[f][k].valid
     /\ generateItemId(provider[f][k]) = pollTask[f].marker}

\* C9: poller boundary stop.  When the marker a poll is called with is the
\* identity of the item at position k of the list the source serves, every
\* item the poll returns is located before position k: neither the marker
\* item nor any item after it is returned.
C9_PollerBoundaryStop ==
  \A f \in FeedIds :
    pollTask[f].pc = "fetched" =>
      \A k \in MarkerPositions(f) :
        \A i \in 1..Len(pollTask[f].newItems) :
          pollTask[f].newItems[i].pos < k

\* a poll returned something, stopped at the marker, and an item after the
\* marker is one it would have returned had it walked on
C9_Witness ==
  /\ pollTask[1].pc = "fetched"
  /\ pollTask[1].newItems # <<>>
  /\ \E k \in MarkerPositions(1) :
       \E j \in (k + 1)..Len(provider[1]) :
         /\ provider[1][j].valid
         /\ provider[1][j].today
         /\ provider[1][j].contentHash \notin feed_items
         /\ generateItemId(provider[1][j]) # pollTask[1].marker

(***************************************************************************)
(* Properties of the deduplicator (SpecDedup).                             *)
(***************************************************************************)
\* two isDuplicate calls were made back to back with the same item, the
\* store lookups succeeding
TwoConsecutiveCalls ==
  /\ Len(dedupLog) = 2
  /\ dedupLog[1].contentHash = dedupLog[2].contentHash
  /\ dedupLog[1].storeOk
  /\ dedupLog[2].storeOk

\* C4: dedup idempotence.  Two consecutive isDuplicate calls with the same
\* item, with nothing in between and the store lookups succeeding, return
\* false then true when the fingerprint was not durably marked, and true
\* then true when it was, whatever the cache size and the elapsed uptime.
\* (An item still in the set from an earlier call counts as marked.)
C4_DedupIdempotence ==
  TwoConsecutiveCalls =>
    /\ dedupLog[1].result = (dedupLog[1].marked \/ dedupLog[1].cached)
    /\ dedupLog[2].result = TRUE

(***************************************************************************)
(* Properties of the poller (SpecPoll).                                    *)
(***************************************************************************)
\* the ids of the active feeds
ActiveIds == {feeds[i].id : i \in {j \in 1..Len(feeds) : feeds[j].isActive}}

\* C10: poller failure isolation.  The map pollAllFeeds returns has exactly
\* one entry for every active feed; a feed whose poll failed after its
\* retries maps to the empty list, and every other feed, in the same chunk
\* or a later one, maps to what its own poll fetched and kept.  pollAllFeeds
\* fails only when the feeds cannot be loaded, before any feed is polled.
C10_PollerFailureIsolation ==
  /\ pollPc = "returned" =>
       /\ DOMAIN results = ActiveIds
       /\ \A f \in ActiveIds :
            /\ Settles(pollTask[f])
            /\ pollTask[f].pc = "rejected" => results[f] = <<>>
            /\ pollTask[f].pc = "fulfilled" =>
                 /\ results[f] = pollTask[f].stored
                 /\ pollTask[f].newItems = NewItems(f, pollTask[f].marker)
  /\ pollPc = "threw" => \A f \in FeedIds : pollTask[f] = IdleTask

\* a poll of two chunks returned: one feed failed, another of the same
\* chunk and one of the later chunk each brought an item
C10_Witness ==
  /\ pollPc = "returned"
  /\ Len(feedChunks) = 2
  /\ \E f, g \in ChunkIds(1), h \in ChunkIds(2) :
       /\ pollTask[f].pc = "rejected"
       /\ pollTask[g].pc = "fulfilled"
       /\ results[g] # <<>>
       /\ results[h] # <<>>

(***************************************************************************)
(* Properties of the scheduler (SpecSched).                                *)
(***************************************************************************)
\* C1: at-most-once delivery.  Across the cycles, whatever the triggers,
\* the filter outcomes and the delivery failures, no content hash is
\* successfully delivered twice to the same channel.
C1_AtMostOnceDelivery ==
  \A c \in Channels :
    \A i, j \in 1..Len(delivered[c]) :
      i # j => delivered[c][i] # delivered[c][j]

\* the program's state but for the clock
CycleState ==
  <<filterVars, dispatchVars, sourceVars, dedupVars, pollTask, pollVars,
    botConfig, isRunning, cycle>>

\* C2: at most one cycle is running.  A cron tick or manual run arriving
\* while a cycle is running starts no cycle and changes nothing (no poll,
\* no filter call, no dispatch, no store write, no error), and it is not
\* queued: a cycle starts only in the step in which a trigger arrives.
C2_SingleCycle ==
  [][/\ (isRunning /\ trigger' # "none") => UNCHANGED CycleState
     /\ (~isRunning /\ isRunning') => trigger' # "none"
     /\ (cycle.pc # "idle") = isRunning]_vars

\* a trigger has just arrived in the middle of a dispatch
C2_Witness ==
  /\ trigger # "none"
  /\ isRunning
  /\ cycle.pc = "dispatching"
  /\ dpc = "posting"
  /\ dLog # <<>>

\* a destination is due at time t: the time since its last update is at
\* least its interval
DueAt(guild, t) == t - guild.lastUpdated >= guild.pollIntervalHours * HourMs

PastGate == cycle.pc \in {"polling", "filtering", "dispatching"}

DispatchInvoked == dpc = "idle" /\ dpc' # "idle"

\* C18: when dispatchFeed is invoked while the Discord client is not ready,
\* it throws at once: no delivery attempt is made, nothing reaches a
\* channel, and no item is counted as posted or failed; and whenever
\* dispatchFeed has thrown, no attempt and no count precede the throw.
C18_DispatchPrecondition ==
  /\ [][DispatchInvoked /\ ~clientReady =>
          /\ dpc' = "raised"
          /\ dAttempt' = 0 /\ dLog' = <<>>
          /\ totalPosted' = 0 /\ totalFailed' = 0
          /\ delivered' = delivered]_vars
  /\ [](dpc = "raised" =>
          /\ dAttempt = 0 /\ dLog = <<>>
          /\ totalPosted = 0 /\ totalFailed = 0)

\* dispatchFeed was given items while the client was down and has thrown
C18_Witness ==
  /\ dpc = "raised"
  /\ ~clientReady
  /\ Len(dItems) > 1
  /\ \A c \in Channels : delivered[c] = <<>>


\* the guild ids of the due guilds of the running cycle
DueGuilds ==
  {cycle.guildsToUpdate[i].guildId : i \in 1..Len(cycle.guildsToUpdate)}

\* pollAllFeeds has returned a map without any item to the cycle
PollFoundNothing ==
  /\ cycle.pc = "polling"
  /\ pollPc = "returned"
  /\ Flat(pollFeeds, results) = <<>>

\* C17: zero new items.  When the poll of a cycle returns no new item, the
\* next step of the cycle writes lastUpdated = now for every due guild
\* and for no other, and ends the cycle: the filter and the dispatcher are
\* not called and nothing is delivered or stored.
C17_ZeroNewItems ==
  [][PollFoundNothing /\ cycle' # cycle =>
       /\ botConfig' =
            [g \in Guilds |->
               IF g \in DueGuilds
               THEN [botConfig[g] EXCEPT !.lastUpdated = now]
               ELSE botConfig[g]]
       /\ cycle'.pc = "idle"
       /\ ~isRunning'
       /\ UNCHANGED <<filterVars, dispatchVars, feed_items>>]_vars

\* a cycle with one of the two guilds due has ended on the zero-items
\* path: the due guild carries the current time, the other its old stamp
C17_Witness ==
  /\ cycle.pc = "idle"
  /\ Len(served) = 1
  /\ served[1].via = "zero"
  /\ \A g \in Guilds :
       IF g = served[1].guildId
       THEN botConfig[g].lastUpdated = now
       ELSE botConfig[g].lastUpdated < 0

(***************************************************************************)
(* Properties of one cycle with store and connection failures (SpecCycle). *)
(***************************************************************************)
\* C15: mark-seen-before-dispatch.  While dispatchFeed is at work for a
\* destination, from its invocation on, every item it was handed is in
\* the persistent seen-set (the feed_items table).
C15_MarkSeenBeforeDispatch ==
  dpc # "idle" =>
    \A i \in 1..Len(dItems) : dItems[i].contentHash \in feed_items

\* the step in which processGuildFeed ends for the current due guild
GuildProcessingEnds ==
  /\ cycle.pc \in {"filtering", "dispatching"}
  /\ cycle'.pc = "idle" \/ cycle'.gi # cycle.gi

\* C16: in a cycle that found new items, when the processing of a due
\* destination ends its lastUpdated has been written exactly once in this
\* cycle (to the current time), as has that of every due destination
\* processed before it, whether or not an item was accepted and whatever
\* the outcome of the dispatch.
C16_LastUpdatedOncePerCycle ==
  [][GuildProcessingEnds =>
       /\ Len(served') = cycle.gi
       /\ \A j \in 1..cycle.gi :
            /\ served'[j].guildId = cycle.guildsToUpdate[j].guildId
            /\ served'[j].via \in {"empty", "dispatched"}
       /\ botConfig'[cycle.guildsToUpdate[cycle.gi].guildId].lastUpdated
            = CURRENT_TIMESTAMP(now)]_vars

\* the items among the first n of allItems that the filter accepted for the
\* current guild, in order
RECURSIVE AcceptedUpTo(_)
AcceptedUpTo(n) ==
  IF n = 0 THEN <<>>
  ELSE IF cycle.outcomes[n] = "accept"
  THEN Append(AcceptedUpTo(n - 1), cycle.allItems[n])
  ELSE AcceptedUpTo(n - 1)

\* C19: per-unit failure isolation in a cycle.  The batch of a destination
\* holds exactly the items the filter accepted for it: an item whose filter
\* call failed or timed out is not in it, and the items after it are still
\* filtered, all of them before the dispatch.  When the processing of a due
\* destination ends, by a stamp or by an error of its dispatch, the next
\* due destination is taken up, and the cycle ends only after the last.
C19_FailureIsolation ==
  /\ [](cycle.pc \in {"filtering", "dispatching"} =>
          /\ cycle.filteredItems = AcceptedUpTo(Len(cycle.outcomes))
          /\ cycle.pc = "filtering" => Len(cycle.outcomes) = cycle.ii - 1
          /\ cycle.pc = "dispatching" =>
                /\ Len(cycle.outcomes) = Len(cycle.allItems)
                /\ dItems = cycle.filteredItems)
  /\ [][GuildProcessingEnds =>
          /\ cycle.pc = "filtering" => cycle.ii = Len(cycle.allItems)
          /\ IF cycle.gi < Len(cycle.guildsToUpdate)
             THEN /\ cycle'.pc = "filtering"
                  /\ cycle'.gi = cycle.gi + 1
                  /\ cycle'.ii = 1
                  /\ isRunning'
             ELSE /\ cycle'.pc = "idle"
                  /\ Len(served') = Len(cycle.guildsToUpdate)]_vars

\* the dispatch of the first due guild threw, and the second due guild is
\* at its dispatch with a batch that lacks the item whose filter call
\* timed out
C19_Witness ==
  /\ cycle.pc = "dispatching"
  /\ cycle.gi = 2
  /\ served[1].via = "raised"
  /\ cycle.outcomes = <<"timeout", "accept">>
  /\ dItems = <<cycle.allItems[2]>>

\* C20: every cycle that enters Running returns to Idle, on every path,
\* when the store, fetch and delivery calls terminate; the filter call
\* need not return, since its timeout settles the race.
C20_CycleReturnsToIdle == isRunning ~> ~isRunning

\* a cycle has returned to Idle after the dispatch of its first due guild
\* threw and nothing was accepted for its second
C20_Witness ==
  /\ ~isRunning
  /\ cycle.pc = "idle"
  /\ Len(served) = 2
  /\ served[1].via = "raised"
  /\ served[2].via = "empty"


(***************************************************************************)
(* Properties of the filter queue (SpecQueue, SpecQueueFair).              *)
(***************************************************************************)
\* C13: concurrency cap.  However submissions and completions follow one
\* another, the number of tasks whose shouldPostItem call has started
\* and not ended never exceeds maxConcurrent.
C13_QueueConcurrencyCap == Cardinality(activePromises) <= maxConcurrent

\* maxConcurrent invocations are running and a further task waits
C13_Witness ==
  /\ Cardinality(activePromises) = maxConcurrent
  /\ queue # <<>>
  /\ \E i \in Tasks : futures[i].settled = 1

Settled(i) == futures[i].state \in {"resolved", "rejected"}

\* C14: progress and failure isolation.  Every future is settled at most
\* once, a step settles the future of one task and leaves every other
\* future as it is, and, the filter invocations all terminating, every
\* submitted task's future is eventually settled.
C14_QueueProgress ==
  /\ [](\A i \in Tasks : futures[i].settled <= 1)
  /\ [][\A i, j \in Tasks :
          (Settled(i)' /\ ~Settled(i) /\ i # j) => futures'[j] = futures[j]]_vars
  /\ \A i \in Tasks : (futures[i].state = "pending") ~> Settled(i)

(***************************************************************************)
(* Properties of the poller under calls from several callers               *)
(* (SpecPollCalls).                                                        *)
(***************************************************************************)
\* C11: pollAllFeeds is exclusive.  A call made while another is in flight
\* gets an empty map in the same step, starts no fetch and leaves the
\* poller, the polls in flight, the store and the deduplicator as they
\* are.  Once a call has ended, with its map or with an error, isPolling
\* is false, and the next call runs a poll of its own: it loads the
\* active feeds, or fails at loading them.
C11_PollAllExclusive ==
  /\ [][reentry = "none" /\ reentry' # "none" =>
          reentry' = "emptyMap" /\ UNCHANGED PollerState]_vars
  /\ [](pollPc \in {"idle", "returned", "threw"} <=> ~isPolling)
  /\ [][pollPc = "idle" /\ pollPc' # "idle" =>
          \/ pollPc' = "loaded" /\ isPolling' /\ pollFeeds' = getAllFeeds
          \/ pollPc' = "threw" /\ ~isPolling']_vars

\* a later pollAllFeeds call is at work, polling feed 1 from the marker an
\* earlier call left, and a call made meanwhile has got its empty map
C11_Witness ==
  /\ reentry = "emptyMap"
  /\ pollPc = "awaiting"
  /\ pollTask[1].pc = "fetch"
  /\ pollTask[1].marker # NoId

\* the poll of feed f is running: executePollSingleFeed was started and
\* has neither returned nor thrown
PollRunning(f) ==
  pollTask[f].pc \in {"fetch", "fetched", "fetchThrew", "isDuplicate"}

\* C12: call collapsing.  The handle of a feed is in pollPromises exactly
\* while a poll of the feed is running.  A request for a feed whose poll is
\* in flight starts no fetch, and when that poll settles the request gets
\* the poll's outcome, the same items or the same failure.
C12_CallCollapsing ==
  /\ [](\A f \in FeedIds : f \in pollPromises <=> PollRunning(f))
  /\ [][\A f \in FeedIds :
          /\ (callers[f].further = "none" /\ callers'[f].further = "waiting")
               => PollRunning(f) /\ UNCHANGED PollerState
          /\ (callers[f].further = "waiting" /\ callers'[f].further # "waiting")
               => /\ callers'[f].further = pollTask[f].pc
                  /\ callers'[f].items = pollTask[f].stored
                  /\ Settles(pollTask[f])]_vars


(***************************************************************************)
(* Further properties of the deduplicator (SpecDedup).                     *)
(***************************************************************************)
\* the isDuplicate call made last
LastCall == dedupLog[Len(dedupLog)]

\* a step that is an isDuplicate call
IsDuplicateStep == dedupLog' # <<>> /\ dedupLog' # dedupLog

\* C21: the in-memory set is never the sole basis of a "not seen" answer.
\* A call of isDuplicate returns false only when the fingerprint was not in
\* the set, so that the store lookup was made, and the lookup missed or
\* failed; a call whose lookup fails returns false and leaves the set and
\* the time of the last cleanup as they were.
C21_NotSeenNeedsStoreLookup ==
  /\ [](\A i \in 1..Len(dedupLog) :
          ~dedupLog[i].result =>
            /\ ~dedupLog[i].cached
            /\ ~dedupLog[i].storeOk \/ ~dedupLog[i].marked)
  /\ [](\A i \in 1..Len(dedupLog) :
          ~dedupLog[i].cached /\ ~dedupLog[i].storeOk => ~dedupLog[i].result)
  /\ [][IsDuplicateStep /\ ~LastCall'.cached /\ ~LastCall'.storeOk =>
          /\ recentHashes' = recentHashes
          /\ lastCleanup' = lastCleanup]_vars

\* a call for a fingerprint that the store holds and the set does not, its
\* lookup failing, has answered "not a duplicate", the set holding others
C21_Witness ==
  /\ dedupLog # <<>>
  /\ ~LastCall.result
  /\ ~LastCall.storeOk
  /\ LastCall.marked
  /\ ~LastCall.cached
  /\ CacheSize(recentHashes) > 0

(***************************************************************************)
(* Further properties of the poller in a cycle (SpecSched).                *)
(***************************************************************************)
\* the fingerprints of the items that the map of pollAllFeeds reports as new
\* for a feed
ReportedNew(f) ==
  IF f \in DOMAIN results
  THEN {results[f][i].contentHash : i \in 1..Len(results[f])}
  ELSE {}

\* C22: dedup across concurrently polled sources.  When two sources polled
\* in the same batch of one pollAllFeeds both yield an item with the same
\* fingerprint, the map that pollAllFeeds returns reports at most one of
\* the two as new.
C22_DedupAcrossSources ==
  pollPc = "returned" =>
    \A f, g \in FeedIds :
      f # g => ReportedNew(f) \cap ReportedNew(g) = {}

(***************************************************************************)
(* Properties of the calls a cycle makes (SpecSched).                      *)
(***************************************************************************)
\* the item whose filterItem call the cycle is waiting for
ItemInFilter == cycle.allItems[cycle.ii]

\* C23: once seen, never re-evaluated.  An item that a cycle sent to the
\* filter, whatever the filter's outcome was, is not sent to the filter by
\* any later cycle.
C23_NeverReEvaluated ==
  cycle.pc = "filtering" => ItemInFilter.contentHash \notin calls.earlier

\* the filterItem calls the running cycle has made, the pending one included
FilterCallsMade ==
  Len(calls.filtered) + (IF cycle.pc = "filtering" THEN 1 ELSE 0)

\* C24: in one cycle a filter decision is produced once per newly polled
\* item.  The cycle makes no more filterItem calls than the poll gave new
\* items, however many destinations are due.
C24_OneDecisionPerItem ==
  cycle.pc \in {"filtering", "dispatching"} =>
    FilterCallsMade <= Len(cycle.allItems)

\* no destination has a delivery target
NoTarget == \A g \in Guilds : botConfig[g].channelId = "none"

\* loading the destinations failed
LoadFailed == cycle.guilds = <<>> /\ ~NoTarget

\* no destination with a delivery target is due
NoneDue ==
  \A g \in Guilds :
    botConfig[g].channelId # "none" => ~DueAt(botConfig[g], now)

InFlight(f) == pollTask[f].pc \notin {"idle", "fulfilled", "rejected"}

\* the number of the batch of pollAllFeeds that holds feed f, by the place
\* of f among the feeds loaded (0: f is not among them)
BatchOf(f) ==
  IF \E i \in 1..Len(pollFeeds) : pollFeeds[i].id = f
  THEN LET i == CHOOSE j \in 1..Len(pollFeeds) : pollFeeds[j].id = f
       IN ((i - 1) \div concurrencyLimit) + 1
  ELSE 0

\* C26: poller fan-out width.  During pollAllFeeds at most 5 polls are in
\* flight at any moment, and a poll of a batch has started only when every
\* poll of the batches before it has settled.
C26_FanOutWidth ==
  /\ Cardinality({f \in FeedIds : InFlight(f)}) <= concurrencyLimit
  /\ \A f, g \in FeedIds :
       /\ pollTask[g].pc # "idle"
       /\ BatchOf(f) > 0
       /\ BatchOf(f) < BatchOf(g)
       => Settles(pollTask[f])

\* the first batch is full and in flight, the feed of the second batch
\* has not started
C26_Witness ==
  /\ Cardinality({f \in FeedIds : InFlight(f)}) = concurrencyLimit
  /\ \E g \in FeedIds : BatchOf(g) = 2 /\ pollTask[g].pc = "idle"

(***************************************************************************)
(* Further properties of one poll of one source (SpecFetch).               *)
(***************************************************************************)
\* C27: source fetch retry.  In one poll a source is fetched at most 3
\* times; an attempt after the first is made only after a failed one and
\* after a wait of 2 s before the second and 4 s before the third; after
\* the third failure the fetch fails and no further attempt is made.
C27_FetchRetry ==
  /\ [](\A f \in FeedIds :
          pollTask[f].pc = "fetch" =>
            /\ pollTask[f].attempt \in 0..2
            /\ pollTask[f].slept =
                 (CASE pollTask[f].attempt = 0 -> 0
                    [] pollTask[f].attempt = 1 -> 2000
                    [] pollTask[f].attempt = 2 -> 4000))
  /\ [][\A f \in FeedIds :
          /\ pollTask'[f].attempt > pollTask[f].attempt =>
                /\ pollTask[f].pc = "fetch"
                /\ pollTask'[f].pc = "fetch"
                /\ pollTask'[f].attempt = pollTask[f].attempt + 1
                /\ UNCHANGED <<lastSeenId, feed_items>>
          /\ pollTask[f].pc = "fetch" /\ pollTask[f].attempt = 2
               /\ pollTask'[f] # pollTask[f] =>
                pollTask'[f].pc \in {"fetched", "fetchThrew"}
          /\ pollTask[f].pc = "fetchThrew" => pollTask'[f].pc # "fetch"]_vars

\* the third attempt of a fetch is in progress, after the 4 s wait
C27_Witness ==
  \E f \in FeedIds :
    /\ pollTask[f].pc = "fetch"
    /\ pollTask[f].attempt = 2
    /\ pollTask[f].slept = 4000

\* an attempt of the fetch of feed f succeeds in this step and returns at
\* least one new item
ProducesNewItems(f) ==
  /\ pollTask[f].pc = "fetch"
  /\ pollTask'[f].pc = "fetched"
  /\ pollTask'[f].newItems # <<>>

\* the first item, in the provider's order, that has a link and a title
NewestValid(f) ==
  provider[f][CHOOSE i \in 1..Len(provider[f]) :
                /\ provider[f][i].valid
                /\ \A j \in 1..(i - 1) : ~provider[f][j].valid]

\* C28: lastSeenMarker update.  A fetch of a source changes the stored
\* marker of that source only when it returns at least one new item, and
\* then sets it to the identity of the newest item of the source that has
\* a link and a title; a fetch that returns nothing new or that fails
\* leaves the marker as it was, and so does every fetch of another source.
C28_MarkerUpdate ==
  [][\A f \in FeedIds :
       IF ProducesNewItems(f)
       THEN lastSeenId'[f] = generateItemId(NewestValid(f))
       ELSE lastSeenId'[f] = lastSeenId[f]]_vars

\* a fetch has returned new items and left a marker that is neither the
\* one it started with nor the identity of the first item it returned
C28_Witness ==
  /\ pollTask[1].pc = "fetched"
  /\ pollTask[1].newItems # <<>>
  /\ lastSeenId[1] # pollTask[1].marker
  /\ lastSeenId[1] = generateItemId(NewestValid(1))
  /\ lastSeenId[1] # generateItemId(provider[1][pollTask[1].newItems[1].pos])

(***************************************************************************)
(* The size of the in-memory set and its reset (SpecDedup).                *)
(***************************************************************************)
\* the isDuplicate call of this step inserts its fingerprint and no reset
\* follows the insertion
Inserts ==
  /\ IsDuplicateStep
  /\ ~LastCall'.cached
  /\ LastCall'.storeOk
  /\ LastCall'.marked \/ ~cleanupDue(now)

\* C29: bounded dedup cache.  After every isDuplicate call the in-memory
\* set holds at most 10,000 fingerprints.  An insertion into a set of
\* 10,000 evicts the 1,000 oldest in insertion order and keeps the
\* fingerprint just inserted, as the newest; an insertion into a smaller
\* set evicts nothing; and a hit leaves the set and its order as they are.
C29_BoundedCache ==
  /\ [](CacheSize(recentHashes) <= 10000)
  /\ [][Inserts =>
          IF CacheSize(recentHashes) = 10000
          THEN /\ recentHashes'.older = recentHashes.older - 1000
               /\ recentHashes'.recent =
                    Append(recentHashes.recent, LastCall'.contentHash)
          ELSE /\ recentHashes'.older = recentHashes.older
               /\ recentHashes'.recent =
                    Append(recentHashes.recent, LastCall'.contentHash)]_vars
  /\ [][IsDuplicateStep /\ LastCall'.cached =>
          recentHashes' = recentHashes]_vars

\* an insertion has just evicted: the set holds 9,001 fingerprints, the one
\* of the last call among them
C29_Witness ==
  /\ dedupLog # <<>>
  /\ ~LastCall.cached
  /\ LastCall.storeOk
  /\ CacheSize(recentHashes) = 9001
  /\ CacheHas(recentHashes, LastCall.contentHash)

\* the isDuplicate call of this step finds its item new, more than 24 hours
\* after the last reset
ResetDue ==
  /\ IsDuplicateStep
  /\ ~LastCall'.cached
  /\ LastCall'.storeOk
  /\ ~LastCall'.marked
  /\ now - lastCleanup > 24 * HourMs

Queued(i) == \E k \in 1..Len(queue) : queue[k] = i

\* the filter invocation of task i has started
Started(i) == futures[i].state # "none" /\ ~Queued(i)

\* C31: FIFO admission.  The filter invocations start in the order of
\* submission: a task is started only when every task submitted before it
\* has been started, and the queue holds the waiting tasks in the order of
\* their submission.  Nothing orders the completions.
C31_FifoAdmission ==
  /\ \A a, b \in Tasks : a < b /\ Started(b) => Started(a)
  /\ \A k \in 1..(Len(queue) - 1) : queue[k] < queue[k + 1]

\* a later task has completed while an earlier one is still running and
\* another waits in the queue
C31_Witness ==
  \E a, b, c \in Tasks :
    /\ a < b /\ b < c
    /\ a \in activePromises
    /\ Settled(b)
    /\ Queued(c)

\* filterItem submits task i in this step
Submitted(i) == futures[i].state = "none" /\ futures'[i].state = "pending"

\* C32: the queue is used only beyond capacity.  An item submitted while
\* fewer than maxConcurrent filter invocations are active has its own
\* invocation started by the filterItem call that submits it: it does not
\* wait in the queue for an active invocation to end.
C32_QueuesOnlyBeyondCapacity ==
  [][\A i \in Tasks :
       Submitted(i) /\ Cardinality(activePromises) < maxConcurrent
         => Started(i)']_vars

\* the invocation the scheduler abandoned on its timeout: the first task,
\* whose shouldPostItem call may never return
Abandoned == 1

\* as SpecQueueFair, but nothing obliges the abandoned invocation to end
SpecQueueAbandoned ==
  /\ SpecQueue
  /\ WF_vars(\E i \in Tasks \ {Abandoned}, ok \in BOOLEAN :
               ProcessTaskEnds(i, ok))
  /\ WF_vars(ProcessQueueResumes)
  /\ WF_vars(SetImmediateFires)

\* C33: a timed-out filter call is a local cancellation.  An item
\* submitted to the queue while the abandoned invocation is still running
\* is started and receives its decision without the abandoned invocation
\* having to end: its future is settled unless that invocation ends first.
C33_LaterItemsDecided ==
  \A i \in Tasks \ {Abandoned} :
    (futures[i].state = "pending" /\ Abandoned \in activePromises)
      ~> (Settled(i) \/ Settled(Abandoned))

(***************************************************************************)
(* Further properties of the filter (SpecFilter).                          *)
(***************************************************************************)
\* the item's text contains keyword k under case-insensitive comparison
ContainsIgnoringCase(item, k) ==
  Includes(ToLowerCase(item.title \o <<" ">> \o item.description),
           ToLowerCase(k))

\* Stage A has read the keywords and given its result
StageADecided ==
  fStageA # NoResult /\ fStageA.reason # <<"Stage A filtering error">>

\* C34: Stage A matching.  Whatever the letter case of the stored keywords
\* and whichever way they were added, Stage A, having read them, rejects
\* the item if and only if the item's title and description contain some
\* stored keyword as a substring under case-insensitive comparison.
C34_StageAMatching ==
  StageADecided =>
    (~fStageA.shouldPost <=>
       \E i \in 1..Len(filters) : ContainsIgnoringCase(fItem, filters[i]))

(***************************************************************************)
(* Further properties of the dispatcher within a cycle (SpecCycle).        *)
(***************************************************************************)
\* the place of item x in the list the cycle submitted to the filter
SubmissionIndex(x) ==
  CHOOSE i \in 1..Len(cycle.allItems) : cycle.allItems[i] = x

\* the fingerprints the running dispatch has delivered, in delivery order
PostedHashes ==
  LET posted == SelectSeq(dLog, LAMBDA e : e.posted)
  IN [k \in 1..Len(posted) |-> posted[k].item.contentHash]

\* C35: dispatch order.  Within one dispatch the items are taken up one
\* after the other in the order of the accepted list: the k-th item the
\* dispatcher finishes is the k-th of the list, an item is begun only when
\* the one before it was delivered or given up, and the channel receives
\* the delivered ones in that order.  The accepted list keeps the order in
\* which the cycle submitted the items to the filter.
C35_DispatchOrder ==
  cycle.pc = "dispatching" =>
    /\ Len(dLog) <= Len(dItems)
    /\ \A k \in 1..Len(dLog) : dLog[k].item = dItems[k]
    /\ dpc = "posting" => CurrentItem = dItems[Len(dLog) + 1]
    /\ Len(PostedHashes) <= Len(delivered[dChannel])
    /\ SubSeq(delivered[dChannel],
              Len(delivered[dChannel]) - Len(PostedHashes) + 1,
              Len(delivered[dChannel])) = PostedHashes
    /\ \A a, b \in 1..Len(dItems) :
         a < b => SubmissionIndex(dItems[a]) < SubmissionIndex(dItems[b])

\* a dispatch of two items has delivered both
C35_Witness ==
  /\ cycle.pc = "dispatching"
  /\ dpc = "done"
  /\ Len(dItems) = 2
  /\ Len(PostedHashes) = 2

(***************************************************************************)
(* Further properties of the dispatcher (SpecDispatch).                    *)
(***************************************************************************)
\* the entries of the dispatch log with the given outcome
LogEntries(posted) == SelectSeq(dLog, LAMBDA e : e.posted = posted)

\* C36: delivery retry.  Within one dispatch every item is attempted at
\* most maxRetries (3) times; the waits between the attempts of an item
\* are 2 s and then 4 s; an item is counted failed only when all three
\* attempts failed; and a delivered item is not sent again: the channel
\* holds each delivered item once.
C36_DeliveryRetry ==
  /\ dAttempt < maxRetries
  /\ dWaits = SubSeq(<<2000, 4000>>, 1, dAttempt)
  /\ \A k \in 1..Len(dLog) :
       /\ dLog[k].sends \in 1..maxRetries
       /\ dLog[k].waits = SubSeq(<<2000, 4000>>, 1, dLog[k].sends - 1)
       /\ ~dLog[k].posted => dLog[k].sends = maxRetries
  /\ totalFailed = Len(LogEntries(FALSE))
  /\ totalPosted = Len(LogEntries(TRUE))
  /\ dpc # "idle" => delivered[dChannel] = PostedHashes

\* one item was delivered at its third attempt, another was given up
C36_Witness ==
  /\ \E k \in 1..Len(dLog) : dLog[k].posted /\ dLog[k].sends = maxRetries
  /\ \E k \in 1..Len(dLog) : ~dLog[k].posted

(***************************************************************************)
(* Failed deliveries across cycles.                                        *)
(***************************************************************************)
\* C37: loss is accepted over duplication.  An item accepted for a
\* destination whose delivery failed (given up after maxRetries attempts,
\* or the dispatch threw on its precondition) is not handed to the
\* dispatcher for that destination again by any later cycle.
C37_NoReattempt ==
  dpc # "idle" =>
    \A k \in 1..Len(dItems) :
      [channelId |-> dChannel, contentHash |-> dItems[k].contentHash]
        \notin failed

(***************************************************************************)
(* The zero-new-items path with store failures (SpecCycle).                *)
(***************************************************************************)
\* C38: on the zero-new-items path the lastUpdated writes belong to the
\* cycle.  When the cycle has ended on that path, the write of every due
\* guild has been made, and none of them has failed outside the cycle: a
\* failing write is caught within the cycle and leaves no unhandled
\* rejection behind.
C38_ZeroPathWritesInCycle ==
  \A i \in 1..Len(served) :
    served[i].via \in {"zero", "unhandled"} =>
      /\ served[i].via = "zero"
      /\ botConfig[served[i].guildId].lastUpdated = now

(***************************************************************************)
(* The cap of one fetch over successive polls (SpecBacklog).               *)
(***************************************************************************)
\* a fetch has returned the item at position p of the provider's list
ReturnedByPoll(p) ==
  /\ pollTask[1].pc = "fetched"
  /\ \E k \in 1..Len(pollTask[1].newItems) : pollTask[1].newItems[k].pos = p

\* C39: no item is skipped by the cap.  Every item the provider serves
\* that is valid, of today, not stored and not behind the marker is
\* returned by some poll of the feed, the items beyond the cap of five by
\* a later poll than the first.
C39_NoItemSkippedByCap ==
  \A p \in 1..(maxItemsPerFetch + MaxBacklog) :
    (p <= Len(provider[1])) ~> ReturnedByPoll(p)

(***************************************************************************)
(* Several destinations in one cycle (SpecCycle).                          *)
(***************************************************************************)
\* the items of a list the filter pass with the given outcomes accepted
AcceptedOf(items, outcomes) ==
  LET idx == SelectSeq([i \in 1..Len(items) |-> i],
                       LAMBDA i : outcomes[i] = "accept")
  IN [k \in 1..Len(idx) |-> items[idx[k]]]

\* C40: the destinations due in one cycle are served independently.  The
\* list handed to the dispatcher for a destination holds every item the
\* filter pass made for that destination accepted, and no other, whether
\* or not the item was stored already while an earlier destination was
\* served.
C40_IndependentDestinations ==
  cycle.pc = "dispatching" =>
    /\ Len(cycle.outcomes) = Len(cycle.allItems)
    /\ dItems = AcceptedOf(cycle.allItems, cycle.outcomes)

\* the second destination of a cycle is handed an item that was stored and
\* delivered while the first was served
C40_Witness ==
  /\ cycle.pc = "dispatching"
  /\ cycle.gi = 2
  /\ served[1].via = "dispatched"
  /\ \E k \in 1..Len(dItems) :
       /\ dItems[k].contentHash \in feed_items
       /\ \E n \in 1..Len(delivered[botConfig[served[1].guildId].channelId]) :
            delivered[botConfig[served[1].guildId].channelId][n]
              = dItems[k].contentHash
=============================================================================
